---------------------------- MODULE Spec2Model ----------------------------
(***************************************************************************)
(* A model of the insurance-claim analysis backend: the /api/analyze       *)
(* handler (app.py), the storage and metadata helpers it calls             *)
(* (gcs_utils.py, metadata_utils.py) and the two model-backend invokers    *)
(* (vertex_utils.py).                                                      *)
(*                                                                         *)
(* Text is modelled as a sequence of one-character strings, so that the    *)
(* response parser's substring tests, splits and strips are computed the   *)
(* way the Python code computes them.  The remote services (Cloud Storage, *)
(* Pillow/PyPDF2, Vertex AI) are collaborators whose outcome at each call  *)
(* is a nondeterministic choice among the results the code distinguishes:  *)
(* a value, None, or a raised exception.  Flask's jsonify is taken to      *)
(* serialise every payload the handler builds.                             *)
(***************************************************************************)
EXTENDS Integers, Sequences, FiniteSets, TLC

(***************************************************************************)
(* Bounds of the model.                                                    *)
(***************************************************************************)
\* Largest number of file parts in one request.
MaxFiles ==
    2

(***************************************************************************)
(* Python string operations on sequences of characters.                    *)
(***************************************************************************)
UpperCase ==
    <<"A", "B", "C", "D", "E", "F", "G", "H", "I", "J", "K", "L", "M",
      "N", "O", "P", "Q", "R", "S", "T", "U", "V", "W", "X", "Y", "Z">>

LowerCase ==
    <<"a", "b", "c", "d", "e", "f", "g", "h", "i", "j", "k", "l", "m",
      "n", "o", "p", "q", "r", "s", "t", "u", "v", "w", "x", "y", "z">>

\* The characters str.strip() removes.
Whitespace ==
    {" ", "\t", "\r", "\n"}

\* c.lower() for one character.
LowerChar(c) ==
    IF \E k \in 1..Len(UpperCase) : UpperCase[k] = c
    THEN LowerCase[CHOOSE k \in 1..Len(UpperCase) : UpperCase[k] = c]
    ELSE c

\* s.lower()
str_lower(s) ==
    [k \in 1..Len(s) |-> LowerChar(s[k])]

\* sub in s
Contains(s, sub) ==
    \E k \in 0..(Len(s) - Len(sub)) : SubSeq(s, k + 1, k + Len(sub)) = sub

\* s.startswith(p)
startswith(s, p) ==
    Len(s) >= Len(p) /\ SubSeq(s, 1, Len(p)) = p

\* A variant of lstrip that removes nothing.
lstrip_Nothing(s, chars) ==
    s

\* s.lstrip(chars), chars a set of characters
lstrip(s, chars) ==
    IF \A k \in 1..Len(s) : s[k] \in chars
    THEN <<>>
    ELSE SubSeq(s, CHOOSE k \in 1..Len(s) :
                       s[k] \notin chars /\ \A j \in 1..(k - 1) : s[j] \in chars,
                Len(s))

\* s.rstrip(chars)
rstrip(s, chars) ==
    IF \A k \in 1..Len(s) : s[k] \in chars
    THEN <<>>
    ELSE SubSeq(s, 1, CHOOSE k \in 1..Len(s) :
                          s[k] \notin chars /\ \A j \in (k + 1)..Len(s) : s[j] \in chars)

\* s.strip()
strip(s) ==
    rstrip(lstrip(s, Whitespace), Whitespace)

\* Index of the first occurrence of character c in s (0 when absent).
FirstIndex(s, c) ==
    IF \E k \in 1..Len(s) : s[k] = c
    THEN CHOOSE k \in 1..Len(s) : s[k] = c /\ \A j \in 1..(k - 1) : s[j] # c
    ELSE 0

\* s.split(c): the pieces of s between occurrences of character c.
RECURSIVE split(_, _)
split(s, c) ==
    IF FirstIndex(s, c) = 0
    THEN <<s>>
    ELSE <<SubSeq(s, 1, FirstIndex(s, c) - 1)>>
             \o split(SubSeq(s, FirstIndex(s, c) + 1, Len(s)), c)

\* s[:n]
Prefix(s, n) ==
    SubSeq(s, 1, IF Len(s) < n THEN Len(s) ELSE n)

(***************************************************************************)
(* Texts: the parser's markers and sentinels, the prompt and the model     *)
(* replies the backends are made to return.                                *)
(***************************************************************************)
ScoreMarker ==
    <<"f", "r", "a", "u", "d", " ", "c", "o", "n", "f", "i", "d", "e", "n",
      "c", "e", " ", "s", "c", "o", "r", "e", ":">>

RationaleMarker ==
    <<"r", "a", "t", "i", "o", "n", "a", "l", "e", " ", "f", "o", "r", " ",
      "s", "c", "o", "r", "e", ":">>

PromptAssess ==
    <<"A", "s", "s", "e", "s", "s", " ", "t", "h", "i", "s", " ", "c", "l",
      "a", "i", "m">>

ReplyBold ==
    <<"*", "*", "F", "r", "a", "u", "d", " ", "C", "o", "n", "f", "i", "d",
      "e", "n", "c", "e", " ", "S", "c", "o", "r", "e", ":", "*", "*", " ",
      "L", "o", "w", "\n", "*", "*", "R", "a", "t", "i", "o", "n", "a", "l",
      "e", " ", "f", "o", "r", " ", "S", "c", "o", "r", "e", ":", "*", "*",
      "\n", "*", " ", "N", "o", " ", "a", "n", "o", "m", "a", "l", "i", "e",
      "s", " ", "f", "o", "u", "n", "d", ".">>

ReplyPlain ==
    <<"F", "r", "a", "u", "d", " ", "C", "o", "n", "f", "i", "d", "e", "n",
      "c", "e", " ", "S", "c", "o", "r", "e", ":", " ", "H", "i", "g", "h",
      "\n", "R", "a", "t", "i", "o", "n", "a", "l", "e", " ", "f", "o", "r",
      " ", "S", "c", "o", "r", "e", ":", "\n", "*", " ", "a", "\n", "*", " ",
      "b">>

ReplyNoScore ==
    <<"R", "a", "t", "i", "o", "n", "a", "l", "e", " ", "f", "o", "r", " ",
      "S", "c", "o", "r", "e", ":", "\n", "*", " ", "a">>

ReplyNoRationale ==
    <<"F", "R", "A", "U", "D", " ", "C", "O", "N", "F", "I", "D", "E", "N",
      "C", "E", " ", "S", "C", "O", "R", "E", ":", " ", "v", "e", "r", "y",
      " ", "h", "i", "g", "h">>

ReplyProse ==
    <<"I", " ", "c", "a", "n", "n", "o", "t", " ", "h", "e", "l", "p", ".">>

ReplyMixed ==
    <<"R", "a", "t", "i", "o", "n", "a", "l", "e", " ", "f", "o", "r", " ",
      "S", "c", "o", "r", "e", ":", "\n", "F", "r", "a", "u", "d", " ", "C",
      "o", "n", "f", "i", "d", "e", "n", "c", "e", " ", "S", "c", "o", "r",
      "e", ":", " ", "O", "d", "d", "\n", "*", "*", "N", "o", "t", "e", "*",
      "*", "\n", "\n", "-", " ", "c", "\n", "f", "r", "a", "u", "d", " ",
      "c", "o", "n", "f", "i", "d", "e", "n", "c", "e", " ", "s", "c", "o",
      "r", "e", ":", " ", "L", "o", "w">>

\* A reply whose only rationale bullet is empty.
ReplyBareBullet ==
    <<"F", "r", "a", "u", "d", " ", "C", "o", "n", "f", "i", "d", "e", "n",
      "c", "e", " ", "S", "c", "o", "r", "e", ":", " ", "L", "o", "w", "\n",
      "R", "a", "t", "i", "o", "n", "a", "l", "e", " ", "f", "o", "r", " ",
      "S", "c", "o", "r", "e", ":", "\n", "*">>

TxtLow ==
    <<"L", "o", "w">>

TxtHigh ==
    <<"H", "i", "g", "h">>

TxtMedium ==
    <<"M", "e", "d", "i", "u", "m">>

TxtVeryHigh ==
    <<"V", "e", "r", "y", " ", "H", "i", "g", "h">>

TxtNoAnomalies ==
    <<"N", "o", " ", "a", "n", "o", "m", "a", "l", "i", "e", "s", " ", "f",
      "o", "u", "n", "d", ".">>

TxtBoldLow ==
    <<"*", "*", " ", "L", "o", "w">>

ErrParsingScore ==
    <<"E", "r", "r", "o", "r", " ", "p", "a", "r", "s", "i", "n", "g", " ",
      "s", "c", "o", "r", "e">>

ErrParsingRationale ==
    <<"E", "r", "r", "o", "r", " ", "p", "a", "r", "s", "i", "n", "g", " ",
      "r", "a", "t", "i", "o", "n", "a", "l", "e", " ", "f", "r", "o", "m",
      " ", "A", "I", " ", "r", "e", "s", "p", "o", "n", "s", "e", ".">>

RationaleNotFound ==
    <<"R", "a", "t", "i", "o", "n", "a", "l", "e", " ", "s", "e", "c", "t",
      "i", "o", "n", " ", "n", "o", "t", " ", "f", "o", "u", "n", "d", " ",
      "i", "n", " ", "A", "I", " ", "r", "e", "s", "p", "o", "n", "s", "e",
      ".">>

ScoreLineNotFound ==
    <<"S", "c", "o", "r", "e", " ", "l", "i", "n", "e", " ", "n", "o", "t",
      " ", "f", "o", "u", "n", "d", ",", " ", "s", "o", " ", "r", "a", "t",
      "i", "o", "n", "a", "l", "e", " ", "m", "i", "g", "h", "t", " ", "b",
      "e", " ", "i", "n", "c", "o", "m", "p", "l", "e", "t", "e", " ", "o",
      "r", " ", "m", "i", "s", "a", "t", "t", "r", "i", "b", "u", "t", "e",
      "d", ".">>

ScoreNotFound ==
    <<"S", "c", "o", "r", "e", " ", "n", "o", "t", " ", "f", "o", "u", "n",
      "d", " ", "i", "n", " ", "A", "I", " ", "r", "e", "s", "p", "o", "n",
      "s", "e">>

NoResponseFromAI ==
    <<"N", "o", " ", "r", "e", "s", "p", "o", "n", "s", "e", " ", "f", "r",
      "o", "m", " ", "A", "I">>

AIDidNotReturn ==
    <<"A", "I", " ", "d", "i", "d", " ", "n", "o", "t", " ", "r", "e", "t",
      "u", "r", "n", " ", "a", " ", "r", "e", "s", "p", "o", "n", "s", "e",
      ".">>

PreviewNA ==
    <<"N", "/", "A">>

\* The replies a backend may produce as text (the empty text included).
Replies ==
    {ReplyBold, ReplyPlain, ReplyNoScore, ReplyNoRationale, ReplyProse,
     ReplyMixed, ReplyBareBullet, <<>>}

\* valid_scores
valid_scores ==
    {str_lower(TxtLow), str_lower(TxtMedium), str_lower(TxtHigh),
     str_lower(TxtVeryHigh)}

\* Length of raw_ai_response_preview.
PreviewLen ==
    500

(***************************************************************************)
(* The response parser of analyze_claim.                                   *)
(***************************************************************************)
\* A variant of ParserStart in which the score line counts as found.
ParserStart_ScoreFound ==
    [parsed_score |-> ErrParsingScore,
     score_line_found |-> TRUE,
     rationale_section_found |-> FALSE,
     current_rationale |-> <<>>]

\* The parser's locals before the scan.
ParserStart ==
    [parsed_score |-> ErrParsingScore,
     score_line_found |-> FALSE,
     rationale_section_found |-> FALSE,
     current_rationale |-> <<>>]

\* The test that decides whether a line is collected as a rationale point.
IsRationaleLine(line) ==
    LET stripped == strip(line)
    IN  \/ startswith(stripped, <<"*">>)
        \/ (stripped # <<>> /\ ~startswith(stripped, <<"*", "*">>))

\* A variant of the loop body in which every line with the score marker sets
\* the score.
ParseLine_LastScoreWins(st, line) ==
    LET line_lower == str_lower(line)
        isScore == Contains(line_lower, ScoreMarker) /\ FirstIndex(line, ":") # 0
        isRationale == ~isScore /\ Contains(line_lower, RationaleMarker)
        afterMarker ==
            IF isScore
            THEN [st EXCEPT
                    !.parsed_score =
                        strip(SubSeq(line, FirstIndex(line, ":") + 1, Len(line))),
                    !.score_line_found = TRUE]
            ELSE IF isRationale
                 THEN [st EXCEPT !.rationale_section_found = TRUE]
                 ELSE st
    IN  IF isRationale
        THEN afterMarker
        ELSE IF /\ afterMarker.rationale_section_found
                /\ afterMarker.score_line_found
                /\ IsRationaleLine(line)
             THEN [afterMarker EXCEPT
                     !.current_rationale =
                         Append(@, strip(lstrip(strip(line), {"*", " "})))]
             ELSE afterMarker

\* One iteration of the loop over the lines of the reply.
ParseLine(st, line) ==
    LET line_lower == str_lower(line)
        isScore == ~st.score_line_found /\ Contains(line_lower, ScoreMarker)
        isRationale == ~isScore /\ Contains(line_lower, RationaleMarker)
        afterMarker ==
            IF isScore
            THEN IF FirstIndex(line, ":") # 0
                 THEN [st EXCEPT
                         !.parsed_score =
                             strip(SubSeq(line, FirstIndex(line, ":") + 1, Len(line))),
                         !.score_line_found = TRUE]
                 ELSE st
            ELSE IF isRationale
                 THEN [st EXCEPT !.rationale_section_found = TRUE]
                 ELSE st
    IN  IF isRationale
        THEN afterMarker
        ELSE IF /\ afterMarker.rationale_section_found
                /\ afterMarker.score_line_found
                /\ IsRationaleLine(line)
             THEN [afterMarker EXCEPT
                     !.current_rationale =
                         Append(@, strip(lstrip(strip(line), {"*", " "})))]
             ELSE afterMarker

\* The loop over the lines, from local state st.
RECURSIVE ParseLines(_, _)
ParseLines(st, lines) ==
    IF lines = <<>>
    THEN st
    ELSE ParseLines(ParseLine(st, Head(lines)), Tail(lines))

\* [r for r in current_rationale if r]
RECURSIVE NonEmpty(_)
NonEmpty(rs) ==
    IF rs = <<>>
    THEN <<>>
    ELSE IF Head(rs) = <<>>
         THEN NonEmpty(Tail(rs))
         ELSE <<Head(rs)>> \o NonEmpty(Tail(rs))

\* The score and rationale the handler derives from ai_response_text.
ParseText(ai_response_text) ==
    IF ai_response_text # <<>>
    THEN LET st == ParseLines(ParserStart, split(ai_response_text, "\n"))
         IN  [parsed_score |->
                 IF st.score_line_found THEN st.parsed_score ELSE ScoreNotFound,
              parsed_rationale_points |->
                 IF st.current_rationale # <<>>
                 THEN NonEmpty(st.current_rationale)
                 ELSE IF ~st.rationale_section_found
                      THEN <<RationaleNotFound>>
                      ELSE IF ~st.score_line_found
                           THEN <<ScoreLineNotFound>>
                           ELSE <<ErrParsingRationale>>]
    ELSE [parsed_score |-> NoResponseFromAI,
          parsed_rationale_points |-> <<AIDidNotReturn>>]

\* ParseText on the replies of the model, evaluated once.
ParsedReplies ==
    [t \in Replies |-> ParseText(t)]

\* ParseText, looked up for the replies of the model.
ParseResponse(ai_response_text) ==
    IF ai_response_text \in Replies
    THEN ParsedReplies[ai_response_text]
    ELSE ParseText(ai_response_text)

(***************************************************************************)
(* Values.                                                                 *)
(***************************************************************************)
\* Python's None where a text, a message or an identifier is expected.
None ==
    <<"None">>

\* Python's None where a mapping is expected.
NoDict ==
    <<>>

\* Python's None where bytes are expected.
NoBytes ==
    "None"

\* "x if x else None" for a list x, as it appears in the JSON payloads.
OrNull(list) ==
    [is_null |-> (list = <<>>), value |-> list]

(***************************************************************************)
(* Process configuration: the environment read at import of app.py.        *)
(***************************************************************************)
\* A well-formed endpoint resource name, as its "/"-separated segments.
GemmaResourceName ==
    <<"projects", "p1", "locations", "us-central1", "endpoints", "gemma-77">>

LlamaResourceName ==
    <<"projects", "p1", "locations", "us-central1", "endpoints", "llama-88">>

\* An endpoint identifier that is only the endpoint number.
BareEndpointId ==
    <<"4242">>

\* The deployments the model starts from: every variable set (the model
\* name left to its default), or one of them unset, empty or malformed.
FullEnv ==
    [GOOGLE_CLOUD_PROJECT |-> <<"p1">>,
     GCS_BUCKET_NAME |-> <<"claims-bucket">>,
     GEMINI_PRO_MODEL_NAME |-> None,
     GEMMA_ENDPOINT_ID |-> GemmaResourceName,
     LLAMA_ENDPOINT_ID |-> LlamaResourceName]

Environments ==
    {FullEnv,
     [FullEnv EXCEPT !.GOOGLE_CLOUD_PROJECT = None],
     [FullEnv EXCEPT !.GCS_BUCKET_NAME = None],
     [FullEnv EXCEPT !.GEMMA_ENDPOINT_ID = None],
     [FullEnv EXCEPT !.GEMMA_ENDPOINT_ID = BareEndpointId],
     [FullEnv EXCEPT !.GEMINI_PRO_MODEL_NAME = <<>>]}

\* os.getenv(name, default) for the variable whose value in the environment
\* is v: the default when the variable is unset.
getenv(v, default) ==
    IF v = None THEN default ELSE v

\* Truthiness of a text-like value: neither None nor the empty string.
Truthy(v) ==
    v # None /\ v # <<>> /\ v # <<"">>

GCP_PROJECT_ID(e) ==
    e.GOOGLE_CLOUD_PROJECT

GCP_LOCATION ==
    <<"us-central1">>

GCS_BUCKET_NAME(e) ==
    e.GCS_BUCKET_NAME

\* The backend table built from environment e.
MODEL_CONFIGS(e) ==
    ("gemini-2.5-pro" :>
        [type |-> "gemini",
         model_name |-> getenv(e.GEMINI_PRO_MODEL_NAME,
                               <<"gemini-1.5-pro-preview-0409">>),
         project |-> GCP_PROJECT_ID(e), location |-> GCP_LOCATION])
    @@ ("gemini-2.5-flash" :>
        [type |-> "gemini", model_name |-> <<"gemini-1.5-flash-preview-0514">>,
         project |-> GCP_PROJECT_ID(e), location |-> GCP_LOCATION])
    @@ ("gemma-3" :>
        [type |-> "endpoint", endpoint_id |-> e.GEMMA_ENDPOINT_ID,
         project |-> GCP_PROJECT_ID(e), location |-> GCP_LOCATION])
    @@ ("llama-3.3" :>
        [type |-> "endpoint", endpoint_id |-> e.LLAMA_ENDPOINT_ID,
         project |-> GCP_PROJECT_ID(e), location |-> GCP_LOCATION])

(***************************************************************************)
(* Requests.                                                               *)
(***************************************************************************)
\* The values of the form field "model" a client sends: a multimodal
\* backend, the two endpoint backends and a key that is not configured.
ModelKeys ==
    {"gemini-2.5-pro", "gemma-3", "llama-3.3", "gpt-4"}

\* The values of the form field "prompt".
Prompts ==
    {<<>>, <<" ", "\t">>, PromptAssess}

\* The multipart forms: each field present or absent.
Forms ==
    {[prompt |-> p, model |-> m] : p \in Prompts, m \in ModelKeys}
        \cup {[prompt |-> p] : p \in Prompts}
        \cup {[model |-> m] : m \in ModelKeys}

\* The file parts a client attaches: one without a filename, an image, a
\* PDF and a type no extractor supports.
FileParts ==
    {[filename |-> "", mimetype |-> "application/octet-stream"],
     [filename |-> "crash scene.jpg", mimetype |-> "image/jpeg"],
     [filename |-> "../invoice.pdf", mimetype |-> "application/pdf"],
     [filename |-> "notes.txt", mimetype |-> "text/plain"]}

\* werkzeug's secure_filename on the names above: path separators are
\* dropped and whitespace becomes an underscore.
secure_filename(name) ==
    CASE name = "crash scene.jpg" -> "crash_scene.jpg"
      [] name = "../invoice.pdf" -> "invoice.pdf"
      [] OTHER -> name

\* Sequences of at most n elements of S.
SeqUpTo(S, n) ==
    UNION {[1..k -> S] : k \in 0..n}

\* The handler's locals at entry, for a request with the given form; files
\* is set when the handler reads request.files, timestamp is the latest
\* clock reading made for the request.
NewRequest(form) ==
    [form |-> form,
     files |-> <<>>,
     pc |-> "start",
     model_config |-> <<>>,
     i |-> 1,
     current_file_details |-> <<>>,
     uploaded_file_details |-> <<>>,
     file_processing_errors |-> <<>>,
     final_ai_prompt |-> <<>>,
     ai_response_text |-> None,
     ai_error_message |-> None,
     http_status_code |-> 200,
     response |-> <<>>,
     timestamp |-> 0,
     log |-> <<>>]

\* A deployment whose Gemma endpoint is unset or malformed, or whose Gemini
\* model name is empty, is explored with the requests that select that
\* backend.
Explored(e, form) ==
    /\ e.GEMMA_ENDPOINT_ID # GemmaResourceName
          => ("model" \in DOMAIN form /\ form.model = "gemma-3")
    /\ e.GEMINI_PRO_MODEL_NAME # None
          => ("model" \in DOMAIN form /\ form.model = "gemini-2.5-pro")

VARIABLES
    env,                \* the environment the process was started with
    gcs_utils_loaded,   \* gcs_utils is imported (its storage_client exists)
    download_client,    \* metadata_utils._storage_client_for_download is set
    clock,              \* the latest reading of the wall clock by upload_to_gcs
    bucket,             \* the bucket: object key -> the file part stored there
    rq                  \* the requests being handled: id -> handler state

vars ==
    <<env, gcs_utils_loaded, download_client, clock, bucket, rq>>

Init ==
    /\ env \in Environments
    /\ gcs_utils_loaded = FALSE
    /\ download_client = FALSE
    /\ clock = 0
    /\ bucket = <<>>
    /\ rq \in [{1} -> {NewRequest(f) : f \in Forms}]
    /\ \A r \in DOMAIN rq : Explored(env, rq[r].form)

(***************************************************************************)
(* analyze_claim: validation of the request.                               *)
(***************************************************************************)
\* The handler state after "return jsonify(body), status".
Returned(q, status, body) ==
    [q EXCEPT !.response = [status |-> status, body |-> body], !.pc = "done"]

\* A variant of PromptMissing that accepts a prompt of whitespace.
PromptMissing_Unstripped(form) ==
    "prompt" \notin DOMAIN form \/ form.prompt = <<>>

\* 'prompt' not in request.form or not request.form['prompt'].strip()
PromptMissing(form) ==
    "prompt" \notin DOMAIN form \/ strip(form.prompt) = <<>>

\* A variant of ConfigGet that falls back to the first Gemini backend.
ConfigGet_WithDefault(configs, selected_model) ==
    IF selected_model \in DOMAIN configs
    THEN configs[selected_model]
    ELSE configs["gemini-2.5-pro"]

\* MODEL_CONFIGS.get(selected_model)
ConfigGet(configs, selected_model) ==
    IF selected_model \in DOMAIN configs
    THEN configs[selected_model]
    ELSE NoDict

\* The handler state after the checks at the head of analyze_claim, for a
\* request that carries the file parts fs.
Validated(q, e, fs) ==
    LET form == q.form
        model_config == ConfigGet(MODEL_CONFIGS(e), form.model)
    IN  IF PromptMissing(form)
        THEN Returned(q, 400, [error |-> <<"Prompt is missing or empty">>])
        ELSE IF "model" \notin DOMAIN form
        THEN Returned(q, 400, [error |-> <<"Model selection is missing">>])
        ELSE IF model_config = NoDict
        THEN Returned(q, 400, [error |-> <<"Invalid model key: ", form.model>>])
        ELSE IF /\ model_config.type = "endpoint"
                /\ ~Truthy(model_config.endpoint_id)
        THEN Returned(q, 500,
                 [error |-> <<"Endpoint ID not configured for model: ", form.model>>])
        ELSE IF ~Truthy(GCP_PROJECT_ID(e)) \/ ~Truthy(GCS_BUCKET_NAME(e))
        THEN Returned(q, 500,
                 [error |-> <<"Server configuration error: GCP_PROJECT_ID or GCS_BUCKET_NAME not set.">>])
        ELSE [q EXCEPT !.model_config = model_config, !.files = fs,
                       !.pc = "import"]

Validate(r) ==
    /\ rq[r].pc = "start"
    /\ \E fs \in SeqUpTo(FileParts, MaxFiles) :
          rq' = [rq EXCEPT ![r] = Validated(rq[r], env, fs)]
    /\ UNCHANGED <<env, gcs_utils_loaded, download_client, clock, bucket>>

\* "import gcs_utils" inside the handler: the first import runs the module,
\* which constructs storage.Client(); an exception there leaves the module
\* unloaded and propagates out of analyze_claim.
ImportUtils(r) ==
    /\ rq[r].pc = "import"
    /\ \/ /\ gcs_utils_loaded' = TRUE
          /\ rq' = [rq EXCEPT ![r].pc = "files"]
       \/ /\ ~gcs_utils_loaded
          /\ gcs_utils_loaded' = FALSE
          /\ rq' = [rq EXCEPT ![r].pc = "raised"]
    /\ UNCHANGED <<env, download_client, clock, bucket>>

(***************************************************************************)
(* gcs_utils.upload_to_gcs and the metadata helpers.  Each returns         *)
(* [raised |-> TRUE] when an exception leaves the function and             *)
(* [raised |-> FALSE, value |-> v] when it returns v.                      *)
(***************************************************************************)
Raises ==
    [raised |-> TRUE]

Returns(v) ==
    [raised |-> FALSE, value |-> v]

\* What the storage service does with one call.
StorageOutcomes ==
    {"ok", "error"}

\* A variant of upload_to_gcs that returns a descriptor although the
\* storage call failed.
upload_to_gcs_DespiteFailure(file, bucket_name, folder, ts, outcome) ==
    IF file.filename = ""
    THEN Returns(NoDict)
    ELSE LET unique_blob_name ==
                 [folder |-> folder, timestamp |-> ts,
                  name |-> secure_filename(file.filename)]
         IN  Returns([gcs_uri |-> [bucket |-> bucket_name, blob |-> unique_blob_name],
                      original_filename |-> secure_filename(file.filename),
                      content_type |-> file.mimetype,
                      blob_name |-> unique_blob_name,
                      bucket_name |-> bucket_name])

\* upload_to_gcs(file, bucket_name, folder) when the clock reads ts.  A
\* storage exception reaches the except clauses, whose first expression
\* google.cloud.exceptions.GoogleCloudError names the unbound "google":
\* the NameError leaves the function.
upload_to_gcs(file, bucket_name, folder, ts, outcome) ==
    IF file.filename = ""
    THEN Returns(NoDict)
    ELSE IF outcome = "error"
    THEN Raises
    ELSE LET unique_blob_name ==
                 [folder |-> folder, timestamp |-> ts,
                  name |-> secure_filename(file.filename)]
         IN  Returns([gcs_uri |-> [bucket |-> bucket_name, blob |-> unique_blob_name],
                      original_filename |-> secure_filename(file.filename),
                      content_type |-> file.mimetype,
                      blob_name |-> unique_blob_name,
                      bucket_name |-> bucket_name])

\* What a download of a stored blob yields.
DownloadOutcomes ==
    {"bytes", "empty", "missing", "error"}

\* get_gcs_file_bytes once the client exists: None for a missing blob, the
\* bytes otherwise; an exception reaches except clauses that name the
\* unbound "google", and the NameError leaves the function.
get_gcs_file_bytes(outcome) ==
    CASE outcome = "missing" -> Returns(NoBytes)
      [] outcome = "error" -> Raises
      [] outcome = "empty" -> Returns("")
      [] OTHER -> Returns("bytes")

\* What the Pillow or PyPDF2 library does with the bytes.
LibraryOutcomes ==
    {"parsed", "no_data", "error"}

\* The content types an extractor exists for.
ImageTypes ==
    {"image/jpeg", "image/png", "image/tiff"}

\* No library runs for a content type without an extractor.
LibraryOutcomesFor(content_type) ==
    IF content_type \in ImageTypes \cup {"application/pdf"}
    THEN LibraryOutcomes
    ELSE {"unused"}

\* extract_image_metadata: every exception is turned into an error mapping.
extract_image_metadata(outcome) ==
    CASE outcome = "parsed" -> Returns([type |-> "image", details |-> "exif"])
      [] outcome = "no_data" -> Returns([info |-> <<"No EXIF data found.">>])
      [] OTHER ->
           Returns([error |-> <<"Could not process image (possibly corrupted or unsupported format)">>])

\* extract_pdf_metadata: Pages is always set, so a readable PDF yields a
\* details mapping; an exception reaches "except PyPDF2.errors.PdfReadError"
\* where PyPDF2 is unbound, and the NameError leaves the function.
extract_pdf_metadata(outcome) ==
    IF outcome = "error"
    THEN Raises
    ELSE Returns([type |-> "pdf",
                  details |-> IF outcome = "parsed" THEN "docinfo+pages" ELSE "pages"])

\* extract_metadata_from_file_bytes(bytes, content_type)
extract_metadata_from_file_bytes(content_type, outcome) ==
    IF content_type \in ImageTypes
    THEN extract_image_metadata(outcome)
    ELSE IF content_type = "application/pdf"
    THEN extract_pdf_metadata(outcome)
    ELSE Returns([info |-> <<"Metadata extraction not supported for content type: ",
                            content_type>>])

(***************************************************************************)
(* analyze_claim: the loop over the attached files.                        *)
(***************************************************************************)
\* The handler state after one more event is recorded in the request's
\* history: the calls the handler makes with what the collaborator did, and
\* the appends to its two lists with the file part they are for.
Logged(q, event) ==
    [q EXCEPT !.log = Append(@, event)]

\* The handler moves on to the next file part.
NextFile(q) ==
    [q EXCEPT !.i = @ + 1, !.current_file_details = NoDict, !.pc = "files"]

\* A variant of FileExceptionCaught in which the exception leaves the
\* handler.
FileExceptionPropagated(q) ==
    [q EXCEPT !.pc = "raised"]

\* A variant of FileExceptionCaught after which the same file part is
\* processed again.
FileExceptionCaught_Retrying(q) ==
    [Logged(
        [q EXCEPT !.file_processing_errors =
             Append(@, [filename |-> secure_filename(q.files[q.i].filename),
                        error |-> <<"Server-side processing error.">>])],
        [op |-> "file_error", file |-> q.i,
         position |-> Len(q.file_processing_errors) + 1])
     EXCEPT !.current_file_details = NoDict, !.pc = "files"]

\* The "except Exception" clause around the processing of one file.
FileExceptionCaught(q) ==
    NextFile(Logged(
        [q EXCEPT !.file_processing_errors =
             Append(@, [filename |-> secure_filename(q.files[q.i].filename),
                        error |-> <<"Server-side processing error.">>])],
        [op |-> "file_error", file |-> q.i,
         position |-> Len(q.file_processing_errors) + 1]))

\* The branch taken when upload_to_gcs returns None.
UploadFailed(q) ==
    NextFile(Logged(
        [q EXCEPT !.file_processing_errors =
             Append(@, [filename |-> secure_filename(q.files[q.i].filename),
                        error |-> <<"Failed to upload ",
                                    secure_filename(q.files[q.i].filename),
                                    " to GCS.">>])],
        [op |-> "file_error", file |-> q.i,
         position |-> Len(q.file_processing_errors) + 1]))

\* A file part without a filename is skipped.
SkipUnnamed(r) ==
    /\ rq[r].pc = "files"
    /\ rq[r].i <= Len(rq[r].files)
    /\ rq[r].files[rq[r].i].filename = ""
    /\ rq' = [rq EXCEPT ![r] = NextFile(rq[r])]
    /\ UNCHANGED <<env, gcs_utils_loaded, download_client, clock, bucket>>

\* What datetime.datetime.now() may read in upload_to_gcs, to the
\* microsecond, when the latest reading of any request is latest and the
\* latest reading made for this request is own: the same microsecond as a
\* call made for another request, or a later one.  Two calls for one
\* request are separated by a storage round trip and read different times.
ClockReadings(latest, own) ==
    {ts \in {latest, latest + 1} : ts > own}

\* Step 1 for a named file part: the call of gcs_utils.upload_to_gcs and
\* the handler's reaction to its result.  blob.upload_from_file stores the
\* file under the blob name, replacing what was stored there.
Upload(r) ==
    /\ rq[r].pc = "files"
    /\ rq[r].i <= Len(rq[r].files)
    /\ rq[r].files[rq[r].i].filename # ""
    /\ \E outcome \in StorageOutcomes, ts \in ClockReadings(clock, rq[r].timestamp) :
         LET q == Logged([rq[r] EXCEPT !.timestamp = ts],
                         [op |-> "upload", file |-> rq[r].i, outcome |-> outcome,
                          ts |-> ts])
             file == q.files[q.i]
             res == upload_to_gcs(file, GCS_BUCKET_NAME(env), "fnol_uploads",
                                  ts, outcome)
         IN  /\ clock' = ts
             /\ IF res.raised
                THEN /\ rq' = [rq EXCEPT ![r] = FileExceptionCaught(q)]
                     /\ UNCHANGED bucket
                ELSE IF res.value = NoDict
                THEN /\ rq' = [rq EXCEPT ![r] = UploadFailed(q)]
                     /\ UNCHANGED bucket
                ELSE /\ rq' = [rq EXCEPT ![r] =
                          [q EXCEPT !.current_file_details = res.value,
                                    !.pc = "fetch"]]
                     /\ bucket' = (res.value.blob_name :> [request |-> r, part |-> q.i])
                                       @@ bucket
    /\ UNCHANGED <<env, gcs_utils_loaded, download_client>>

\* A variant of Described that also records a file error for the file part.
Described_WithError(q, meta) ==
    NextFile(Logged(Logged(
        [q EXCEPT !.uploaded_file_details =
             Append(@, q.current_file_details @@ [extracted_metadata |-> meta]),
                  !.file_processing_errors =
             Append(@, [filename |-> secure_filename(q.files[q.i].filename),
                        error |-> <<"Server-side processing error.">>])],
        [op |-> "described", file |-> q.i,
         position |-> Len(q.uploaded_file_details) + 1]),
        [op |-> "file_error", file |-> q.i,
         position |-> Len(q.file_processing_errors) + 1]))

\* current_file_details with its extracted_metadata set, appended to
\* uploaded_file_details.
Described(q, meta) ==
    NextFile(Logged(
        [q EXCEPT !.uploaded_file_details =
             Append(@, q.current_file_details @@ [extracted_metadata |-> meta])],
        [op |-> "described", file |-> q.i,
         position |-> Len(q.uploaded_file_details) + 1]))

\* Step 2 for a stored file: the call of metadata_utils.get_gcs_file_bytes.
\* The first call constructs the download client before the try block.  A
\* download yields what is stored under the blob name at that moment.
Fetch(r) ==
    /\ rq[r].pc = "fetch"
    /\ \/ /\ ~download_client
          /\ download_client' = FALSE
          /\ rq' = [rq EXCEPT ![r] = FileExceptionCaught(
                       Logged(rq[r], [op |-> "fetch", file |-> rq[r].i,
                                      outcome |-> "client_error"]))]
       \/ /\ download_client' = TRUE
          /\ \E outcome \in DownloadOutcomes :
               LET key == rq[r].current_file_details.blob_name
                   q == Logged(rq[r],
                               IF outcome = "bytes"
                               THEN [op |-> "fetch", file |-> rq[r].i,
                                     outcome |-> outcome, content |-> bucket[key]]
                               ELSE [op |-> "fetch", file |-> rq[r].i,
                                     outcome |-> outcome])
                   res == get_gcs_file_bytes(outcome)
               IN  rq' = [rq EXCEPT ![r] =
                      IF res.raised
                      THEN FileExceptionCaught(q)
                      ELSE IF res.value \in {NoBytes, ""}
                      THEN Described(q,
                               [error |-> <<"Could not retrieve bytes for ",
                                            q.current_file_details.original_filename,
                                            " from GCS for metadata extraction.">>])
                      ELSE [q EXCEPT !.pc = "extract"]]
    /\ UNCHANGED <<env, gcs_utils_loaded, clock, bucket>>

\* The call of metadata_utils.extract_metadata_from_file_bytes on the bytes
\* fetched.
Extract(r) ==
    /\ rq[r].pc = "extract"
    /\ \E outcome \in LibraryOutcomesFor(rq[r].current_file_details.content_type) :
         LET q == Logged(rq[r], [op |-> "extract", file |-> rq[r].i,
                                 outcome |-> outcome])
             res == extract_metadata_from_file_bytes(
                        q.current_file_details.content_type, outcome)
         IN  rq' = [rq EXCEPT ![r] =
                IF res.raised THEN FileExceptionCaught(q) ELSE Described(q, res.value)]
    /\ UNCHANGED <<env, gcs_utils_loaded, download_client, clock, bucket>>

(***************************************************************************)
(* analyze_claim: the prompt sent to the model.  The prompt is the list    *)
(* ai_prompt_parts, which the code joins with newlines.                    *)
(***************************************************************************)
\* A variant of FileBlock that writes no line for an info mapping.
FileBlock_WithoutInfo(k, file_detail) ==
    <<[part |-> "Attached File", index |-> k, name |-> file_detail.original_filename],
      [part |-> "GCS URI", uri |-> file_detail.gcs_uri],
      [part |-> "Content Type", content_type |-> file_detail.content_type]>>
    \o (IF "extracted_metadata" \in DOMAIN file_detail
        THEN LET meta_info == file_detail.extracted_metadata
                 has_error == "error" \in DOMAIN meta_info /\ Truthy(meta_info.error)
                 has_info == "info" \in DOMAIN meta_info /\ Truthy(meta_info.info)
             IN  IF DOMAIN meta_info # {} /\ ~has_error /\ ~has_info
                 THEN <<[part |-> "Metadata", metadata |-> meta_info]>>
                 ELSE IF has_error
                 THEN <<[part |-> "Metadata Extraction Error", error |-> meta_info.error]>>
                 ELSE <<>>
        ELSE <<>>)
    \o <<[part |-> "End Attached File"]>>

\* The parts appended for the k-th entry of uploaded_file_details.
FileBlock(k, file_detail) ==
    <<[part |-> "Attached File", index |-> k, name |-> file_detail.original_filename],
      [part |-> "GCS URI", uri |-> file_detail.gcs_uri],
      [part |-> "Content Type", content_type |-> file_detail.content_type]>>
    \o (IF "extracted_metadata" \in DOMAIN file_detail
        THEN LET meta_info == file_detail.extracted_metadata
                 has_error == "error" \in DOMAIN meta_info /\ Truthy(meta_info.error)
                 has_info == "info" \in DOMAIN meta_info /\ Truthy(meta_info.info)
             IN  IF DOMAIN meta_info # {} /\ ~has_error /\ ~has_info
                 THEN <<[part |-> "Metadata", metadata |-> meta_info]>>
                 ELSE IF has_error
                 THEN <<[part |-> "Metadata Extraction Error", error |-> meta_info.error]>>
                 ELSE IF has_info
                 THEN <<[part |-> "Metadata Info", info |-> meta_info.info]>>
                 ELSE <<>>
        ELSE <<>>)
    \o <<[part |-> "End Attached File"]>>

\* The blocks of the entries k..Len(details), in order.
RECURSIVE FileBlocks(_, _)
FileBlocks(k, details) ==
    IF k > Len(details)
    THEN <<>>
    ELSE FileBlock(k, details[k]) \o FileBlocks(k + 1, details)

\* final_ai_prompt
ComposePrompt(user_prompt, details) ==
    <<[part |-> "SYSTEM_PROMPT"], [part |-> "User Query", text |-> user_prompt]>>
        \o FileBlocks(1, details)

\* A variant of Compose that does not wait for the end of the file loop.
Compose_Early(r) ==
    /\ rq[r].pc = "files"
    /\ rq' = [rq EXCEPT ![r] =
          [rq[r] EXCEPT
              !.final_ai_prompt = ComposePrompt(rq[r].form.prompt,
                                                rq[r].uploaded_file_details),
              !.pc = "invoke"]]
    /\ UNCHANGED <<env, gcs_utils_loaded, download_client, clock, bucket>>

\* The end of the file loop: the prompt is composed.
Compose(r) ==
    /\ rq[r].pc = "files"
    /\ rq[r].i > Len(rq[r].files)
    /\ rq' = [rq EXCEPT ![r] =
          [rq[r] EXCEPT
              !.final_ai_prompt = ComposePrompt(rq[r].form.prompt,
                                                rq[r].uploaded_file_details),
              !.pc = "invoke"]]
    /\ UNCHANGED <<env, gcs_utils_loaded, download_client, clock, bucket>>

(***************************************************************************)
(* vertex_utils.invoke_gemini_model.  Each invoker yields                  *)
(* [raised, text, error, events]: whether an exception left the function,  *)
(* the pair it returned otherwise, and the SDK calls it made.              *)
(***************************************************************************)
Result(text, error, events) ==
    [raised |-> FALSE, text |-> text, error |-> error, events |-> events]

Raised(events) ==
    [raised |-> TRUE, text |-> None, error |-> None, events |-> events]

\* The responses generate_content may give: no candidates, a candidate
\* without content parts, a candidate carrying one text part.
GeminiResponses ==
    <<[candidates |-> <<>>],
      [candidates |-> <<[parts |-> <<>>]>>]>>
    \o [k \in 1..8 |->
          [candidates |->
              <<[parts |-> <<[text |-> <<ReplyBold, ReplyPlain, ReplyNoScore,
                                         ReplyNoRationale, ReplyProse, ReplyMixed,
                                         <<>>, ReplyBareBullet>>[k]]>>]>>]]

\* "".join(texts)
RECURSIVE JoinTexts(_, _)
JoinTexts(texts, sep) ==
    IF texts = <<>>
    THEN <<>>
    ELSE IF Len(texts) = 1
    THEN Head(texts)
    ELSE Head(texts) \o sep \o JoinTexts(Tail(texts), sep)

\* The file-reference parts built from the descriptors k..Len(details),
\* leaving out those without a URI or content type and those for which
\* Part.from_uri raised (bad_uris).
RECURSIVE FileParts_from_uri(_, _, _)
FileParts_from_uri(k, details, bad_uris) ==
    IF k > Len(details)
    THEN <<>>
    ELSE (IF details[k].content_type # "" /\ k \notin bad_uris
          THEN <<[file_data |-> details[k].gcs_uri,
                  mime_type |-> details[k].content_type]>>
          ELSE <<>>)
         \o FileParts_from_uri(k + 1, details, bad_uris)

\* The text of a response that has a candidate with content parts.
CandidateText(candidate) ==
    JoinTexts([k \in 1..Len(candidate.parts) |-> candidate.parts[k].text], <<>>)

\* invoke_gemini_model.  sdk tells where the SDK fails ("init", "model",
\* "call" or "none"), for which descriptors Part.from_uri raises, and the response.
\* The except clauses format model_name_short, which is unbound while
\* vertexai.init is running: a failure there leaves the function as an
\* UnboundLocalError.
invoke_gemini_model(project_id, location, model_name, text_prompt, file_details_list, sdk) ==
    LET init == <<[op |-> "vertexai.init"]>>
        prompt_parts == <<[text |-> text_prompt]>>
                            \o FileParts_from_uri(1, file_details_list, sdk.bad_uris)
        call == <<[op |-> "generate_content", contents |-> prompt_parts]>>
        response == sdk.response
    IN  IF sdk.fails = "init"
        THEN Raised(init)
        ELSE IF sdk.fails = "model"
        THEN Result(None, <<"Unexpected error invoking Gemini model (vertexai SDK)">>,
                    init)
        ELSE IF text_prompt = <<>> /\ Len(prompt_parts) = 1
        THEN Result(None,
                    <<"Cannot send an empty prompt (no text and no files) to Gemini.">>,
                    init)
        ELSE IF sdk.fails = "call"
        THEN Result(None, <<"Google API Error invoking Gemini model (vertexai SDK)">>,
                    init \o call)
        ELSE IF response.candidates = <<>>
        THEN Result(None, <<"Gemini (vertexai SDK) returned no candidates.">>,
                    init \o call)
        ELSE IF response.candidates[1].parts = <<>>
        THEN Result(None,
                    <<"Gemini (vertexai SDK) response candidate was empty or malformed.">>,
                    init \o call)
        ELSE Result(CandidateText(response.candidates[1]), None, init \o call)

(***************************************************************************)
(* vertex_utils.invoke_vertex_endpoint_model.                              *)
(***************************************************************************)
\* A variant of MatchesResourceName that accepts every identifier.
MatchesResourceName_Anything(endpoint_id) ==
    TRUE

\* re.match of projects/<p>/locations/<r>/endpoints/<id> against an
\* identifier given by its "/"-separated segments.
MatchesResourceName(endpoint_id) ==
    /\ endpoint_id # None
    /\ Len(endpoint_id) >= 6
    /\ endpoint_id[1] = "projects" /\ endpoint_id[2] # ""
    /\ endpoint_id[3] = "locations" /\ endpoint_id[4] # ""
    /\ endpoint_id[5] = "endpoints" /\ endpoint_id[6] # ""

\* word in endpoint_id.lower(), for the identifiers of the model.
Mentions(endpoint_id, word) ==
    \E k \in 1..Len(endpoint_id) :
        \/ word = "gemma" /\ endpoint_id[k] = "gemma-77"
        \/ word = "llama" /\ endpoint_id[k] = "llama-88"

\* The key of the instance that carries the prompt.
input_key(endpoint_id) ==
    IF Mentions(endpoint_id, "gemma")
    THEN "text_batch"
    ELSE "prompt"

keys_to_try ==
    <<"generated_text", "text", "output_text", "output", "prediction",
      "completion", "outputs">>

\* any(substr in k.lower() for substr in input_like_key_substrings), for
\* the keys that occur in the modelled predictions.
IsInputLike(k) ==
    k \in {"prompt", "text_batch", "inputs", "query", "context", "echo", "instances"}

\* Prediction values: a string [str |-> chars], a list [list |-> items], a
\* dict [dict |-> <<[k |-> key, v |-> value], ...>>] in insertion order, or
\* a number [num |-> n].
IsStr(v) ==
    "str" \in DOMAIN v

IsList(v) ==
    "list" \in DOMAIN v

IsDict(v) ==
    "dict" \in DOMAIN v

HasKey(d, key) ==
    \E k \in 1..Len(d.dict) : d.dict[k].k = key

Get(d, key) ==
    d.dict[CHOOSE k \in 1..Len(d.dict) : d.dict[k].k = key].v

\* The elements of seq that satisfy Test, in order.
RECURSIVE SelectIndices(_, _, _)
SelectIndices(k, n, Keep) ==
    IF k > n
    THEN <<>>
    ELSE (IF k \in Keep THEN <<k>> ELSE <<>>) \o SelectIndices(k + 1, n, Keep)

\* max(texts, key=len): the first text of greatest length.
Longest(texts) ==
    texts[CHOOSE k \in 1..Len(texts) :
              /\ \A j \in 1..Len(texts) : Len(texts[j]) <= Len(texts[k])
              /\ \A j \in 1..(k - 1) : Len(texts[j]) < Len(texts[k])]

\* The string values of dict d whose keys are in Keys, in insertion order.
StringValues(d, Keys) ==
    LET idx == SelectIndices(1, Len(d.dict),
                   {k \in 1..Len(d.dict) : IsStr(d.dict[k].v) /\ d.dict[k].k \in Keys})
    IN  [j \in 1..Len(idx) |-> d.dict[idx[j]].v.str]

\* Extraction outcomes: a text, an error message, or an exception raised
\* inside the try block.
Text(t) ==
    [kind |-> "text", text |-> t]

Failure(message) ==
    [kind |-> "error", text |-> message]

Exception ==
    [kind |-> "exception", text |-> None]

\* Step 1 on a dict: the first key of keys_to_try whose value is a string
\* or a non-empty list starting with a string.
ByKnownKey(d, string_only) ==
    LET usable(key) ==
            /\ HasKey(d, key)
            /\ \/ IsStr(Get(d, key))
               \/ /\ ~string_only
                  /\ IsList(Get(d, key))
                  /\ Get(d, key).list # <<>>
                  /\ IsStr(Get(d, key).list[1])
        hits == SelectIndices(1, Len(keys_to_try),
                              {k \in 1..Len(keys_to_try) : usable(keys_to_try[k])})
    IN  IF hits = <<>>
        THEN Exception
        ELSE LET v == Get(d, keys_to_try[hits[1]])
             IN  Text(IF IsStr(v) THEN v.str ELSE v.list[1].str)

\* Steps 1-3 on a prediction that is a dict.
TextOfDict(d) ==
    LET by_key == ByKnownKey(d, FALSE)
        all_keys == {d.dict[k].k : k \in 1..Len(d.dict)}
        candidate_strings == StringValues(d, {k \in all_keys : ~IsInputLike(k)})
        other_strings == StringValues(d, {k \in all_keys : IsInputLike(k)})
    IN  IF by_key.kind = "text"
        THEN by_key
        ELSE IF candidate_strings # <<>>
        THEN Text(Longest(candidate_strings))
        ELSE IF other_strings # <<>>
        THEN Text(Longest(other_strings))
        ELSE IF ~HasKey(d, "predictions")
        THEN Failure(<<"Failed to parse AI response.">>)
        ELSE LET nested == Get(d, "predictions")
             IN  IF ~IsList(nested) \/ nested.list = <<>>
                 THEN Exception
                 ELSE IF "num" \in DOMAIN nested.list[1]
                 THEN Exception
                 ELSE IF /\ IsDict(nested.list[1])
                         /\ HasKey(nested.list[1], "generated_text")
                 THEN Text(Get(nested.list[1], "generated_text").str)
                 ELSE Failure(<<"Failed to parse AI response.">>)

\* The text segment of one item of a prediction that is a list:
\* <<segment>> or <<>> when the item yields none.
ItemSegment(item) ==
    IF IsStr(item)
    THEN <<item.str>>
    ELSE IF IsDict(item)
    THEN IF ByKnownKey(item, TRUE).kind = "text"
         THEN <<ByKnownKey(item, TRUE).text>>
         ELSE LET all_keys == {item.dict[k].k : k \in 1..Len(item.dict)}
                  strings == StringValues(item, {k \in all_keys : ~IsInputLike(k)})
              IN  IF strings # <<>> THEN <<Longest(strings)>> ELSE <<>>
    ELSE <<>>

RECURSIVE Segments(_)
Segments(items) ==
    IF items = <<>>
    THEN <<>>
    ELSE ItemSegment(Head(items)) \o Segments(Tail(items))

\* The handling of response.predictions.
TextOfPredictions(predictions) ==
    IF predictions = <<>>
    THEN Failure(<<"Endpoint returned no predictions object or an empty list.">>)
    ELSE LET prediction_content == predictions[1]
         IN  IF IsDict(prediction_content)
             THEN TextOfDict(prediction_content)
             ELSE IF IsStr(prediction_content)
             THEN Text(prediction_content.str)
             ELSE IF IsList(prediction_content)
             THEN IF prediction_content.list = <<>>
                  THEN Failure(<<"Prediction list was empty.">>)
                  ELSE IF Segments(prediction_content.list) # <<>>
                  THEN Text(JoinTexts(Segments(prediction_content.list), <<"\n">>))
                  ELSE Failure(<<"Prediction list contained no parsable text segments.">>)
             ELSE Failure(<<"Unexpected prediction format from endpoint.">>)

\* The predictions an endpoint may return.
Str(t) ==
    [str |-> t]

Dict(pairs) ==
    [dict |-> pairs]

EndpointResponses ==
    <<  <<>>,
        <<Str(ReplyBold)>>,
        <<Str(ReplyPlain)>>,
        <<Str(<<>>)>>,
        <<Dict(<<[k |-> "generated_text", v |-> Str(<<>>)]>>)>>,
        <<Dict(<<[k |-> "outputs", v |-> [list |-> <<Str(ReplyMixed)>>]]>>)>>,
        <<Dict(<<[k |-> "text_batch", v |-> Str(PromptAssess)],
                 [k |-> "response", v |-> Str(ReplyNoScore)]>>)>>,
        <<Dict(<<[k |-> "prompt", v |-> Str(PromptAssess)],
                 [k |-> "score", v |-> [num |-> 1]]>>)>>,
        <<Dict(<<[k |-> "predictions", v |-> [list |-> <<>>]]>>)>>,
        <<Dict(<<[k |-> "predictions",
                  v |-> [list |-> <<Dict(<<[k |-> "generated_text",
                                            v |-> Str(ReplyNoRationale)]>>)>>]]>>)>>,
        <<[list |-> <<Str(ReplyProse),
                      Dict(<<[k |-> "text", v |-> Str(RationaleMarker)]>>),
                      [num |-> 1]>>]>>,
        <<[num |-> 1]>>  >>

\* invoke_vertex_endpoint_model.  sdk tells where the SDK fails ("init",
\* "client", "call" or "none") and the predictions returned.  init and the
\* Endpoint constructor run before the try block.
invoke_vertex_endpoint_model(project_id, location, endpoint_id, text_prompt, file_details_list, sdk) ==
    LET init == <<[op |-> "aiplatform.init"]>>
        client == <<[op |-> "aiplatform.Endpoint"]>>
        instance_dict == [key |-> input_key(endpoint_id), text |-> text_prompt,
                          max_tokens |-> 30000]
        call == <<[op |-> "predict", instances |-> <<instance_dict>>]>>
        extracted == TextOfPredictions(sdk.predictions)
    IN  IF ~MatchesResourceName(endpoint_id)
        THEN Result(None, <<"Invalid Vertex AI Endpoint ID format">>, <<>>)
        ELSE IF sdk.fails = "init"
        THEN Raised(init)
        ELSE IF sdk.fails = "client"
        THEN Raised(init \o client)
        ELSE IF sdk.fails = "call"
        THEN Result(None, <<"Google API Error invoking Vertex Endpoint">>,
                    init \o client \o call)
        ELSE IF extracted.kind = "text"
        THEN Result(extracted.text, None, init \o client \o call)
        ELSE IF extracted.kind = "error"
        THEN Result(None, extracted.text, init \o client \o call)
        ELSE Result(None, <<"Unexpected error invoking Vertex Endpoint">>,
                    init \o client \o call)

(***************************************************************************)
(* analyze_claim: the model call and the response.                         *)
(***************************************************************************)
\* What the Gemini SDK may do during one invocation with n descriptors:
\* vertexai.init, the GenerativeModel constructor or generate_content
\* fails, or generate_content answers.  No model answers to an empty name.
GeminiBehaviours(n, model_name) ==
    {[fails |-> f, bad_uris |-> {}, response |-> GeminiResponses[1]] :
        f \in {"init", "model", "call"}}
    \cup (IF model_name = <<>>
          THEN {}
          ELSE {[fails |-> "none", bad_uris |-> {}, response |-> GeminiResponses[k]] :
                   k \in 1..Len(GeminiResponses)}
               \cup {[fails |-> "none", bad_uris |-> {k},
                      response |-> GeminiResponses[4]] : k \in 1..n})

\* What the aiplatform SDK may do during one invocation.
EndpointBehaviours ==
    {[fails |-> f, predictions |-> <<>>] : f \in {"init", "client", "call"}}
    \cup {[fails |-> "none", predictions |-> EndpointResponses[k]] :
             k \in 1..Len(EndpointResponses)}

\* A variant of Invoked whose except clause sets the status only.
Invoked_WithoutMessage(q, kind, res) ==
    LET logged == [q EXCEPT !.log = (@ \o <<[op |-> "invoke", kind |-> kind,
                                               raised |-> res.raised]>>)
                                        \o res.events]
    IN  IF res.raised
        THEN [logged EXCEPT !.http_status_code = 500]
        ELSE [logged EXCEPT !.ai_response_text = res.text,
                            !.ai_error_message = res.error]

\* The handler state after the try block around the model call, given the
\* invoker's result res of kind "gemini" or "endpoint".
Invoked(q, kind, res) ==
    LET logged == [q EXCEPT !.log = (@ \o <<[op |-> "invoke", kind |-> kind,
                                               raised |-> res.raised]>>)
                                        \o res.events]
    IN  IF res.raised
        THEN [logged EXCEPT
                 !.ai_error_message = <<"An unexpected error occurred on the server.">>,
                 !.http_status_code = 500]
        ELSE [logged EXCEPT !.ai_response_text = res.text,
                            !.ai_error_message = res.error]

\* A variant of FailurePayload that reports no file results.
FailurePayload_WithoutFiles(q) ==
    [error |-> <<"AI model processing failed.">>,
     details |-> q.ai_error_message,
     file_processing_errors |-> OrNull(<<>>),
     processed_files_summary |-> OrNull(<<>>)]

\* The payload returned when ai_error_message is set.
FailurePayload(q) ==
    [error |-> <<"AI model processing failed.">>,
     details |-> q.ai_error_message,
     file_processing_errors |-> OrNull(q.file_processing_errors),
     processed_files_summary |-> OrNull(q.uploaded_file_details)]

\* final_response_to_client
FinalPayload(q) ==
    LET parsed == ParseResponse(q.ai_response_text)
    IN  [fraudConfidenceScore |-> parsed.parsed_score,
         rationale |-> parsed.parsed_rationale_points,
         raw_ai_response_preview |->
             IF Truthy(q.ai_response_text)
             THEN Prefix(q.ai_response_text, PreviewLen)
             ELSE PreviewNA,
         file_processing_errors |-> OrNull(q.file_processing_errors),
         processed_files_summary |-> q.uploaded_file_details]

\* A variant of Responded that answers a failed model call with the status
\* it finds.
Responded_KeepingStatus(q) ==
    IF Truthy(q.ai_error_message)
    THEN Returned(q, q.http_status_code, FailurePayload(q))
    ELSE Returned(q, q.http_status_code, FinalPayload(q))

\* The handler state after the code that follows the model call.
Responded(q) ==
    IF Truthy(q.ai_error_message)
    THEN Returned(q, IF q.http_status_code = 200 THEN 502 ELSE q.http_status_code,
                  FailurePayload(q))
    ELSE Returned(q, q.http_status_code, FinalPayload(q))

\* A variant of ModelCalled that reports a backend of another kind without
\* setting its own status.
ModelCalled_WithoutStatus(q, sdk) ==
    LET config == q.model_config
    IN  IF config.type = "gemini"
        THEN Invoked(q, "gemini",
                 invoke_gemini_model(config.project, config.location,
                     config.model_name, q.final_ai_prompt,
                     q.uploaded_file_details, sdk))
        ELSE IF config.type = "endpoint"
        THEN Invoked(q, "endpoint",
                 invoke_vertex_endpoint_model(config.project, config.location,
                     config.endpoint_id, q.final_ai_prompt,
                     q.uploaded_file_details, sdk))
        ELSE [q EXCEPT !.ai_error_message =
                           <<"Unknown model type configured: ", config.type>>]

\* The handler state after the model call, whose variant is chosen by
\* model_config['type']; sdk is what the SDK does during the call.
ModelCalled(q, sdk) ==
    LET config == q.model_config
    IN  IF config.type = "gemini"
        THEN Invoked(q, "gemini",
                 invoke_gemini_model(config.project, config.location,
                     config.model_name, q.final_ai_prompt,
                     q.uploaded_file_details, sdk))
        ELSE IF config.type = "endpoint"
        THEN Invoked(q, "endpoint",
                 invoke_vertex_endpoint_model(config.project, config.location,
                     config.endpoint_id, q.final_ai_prompt,
                     q.uploaded_file_details, sdk))
        ELSE [q EXCEPT !.ai_error_message =
                           <<"Unknown model type configured: ", config.type>>,
                       !.http_status_code = 501]

\* The model call and the response built from its result.
CallModel(r) ==
    /\ rq[r].pc = "invoke"
    /\ \E sdk \in IF rq[r].model_config.type = "gemini"
                   THEN GeminiBehaviours(Len(rq[r].uploaded_file_details),
                                         rq[r].model_config.model_name)
                   ELSE EndpointBehaviours :
          rq' = [rq EXCEPT ![r] = Responded(ModelCalled(rq[r], sdk))]
    /\ UNCHANGED <<env, gcs_utils_loaded, download_client, clock, bucket>>

(***************************************************************************)
(* The specification: requests are handled step by step.                   *)
(***************************************************************************)
Next ==
    \/ \E r \in DOMAIN rq : Validate(r)
    \/ \E r \in DOMAIN rq : ImportUtils(r)
    \/ \E r \in DOMAIN rq : SkipUnnamed(r)
    \/ \E r \in DOMAIN rq : Upload(r)
    \/ \E r \in DOMAIN rq : Fetch(r)
    \/ \E r \in DOMAIN rq : Extract(r)
    \/ \E r \in DOMAIN rq : Compose(r)
    \/ \E r \in DOMAIN rq : CallModel(r)

Spec ==
    Init /\ [][Next]_vars

(***************************************************************************)
(* The model call on its own.  MODEL_CONFIGS of the repository holds only  *)
(* the kinds "gemini" and "endpoint"; the handler's branch for any other   *)
(* kind is exercised here by starting the handler at the model call with   *)
(* a configuration of kind "batch" next to the configured ones.            *)
(***************************************************************************)
\* The configurations the model call is started with.
DispatchConfigs ==
    {MODEL_CONFIGS(FullEnv)[k] : k \in DOMAIN MODEL_CONFIGS(FullEnv)}
        \cup {[type |-> "batch", project |-> GCP_PROJECT_ID(FullEnv),
               location |-> GCP_LOCATION]}

\* The descriptor of the file part stored when the clock read ts.
StoredFile(file, ts, meta) ==
    upload_to_gcs(file, GCS_BUCKET_NAME(FullEnv), "fnol_uploads", ts, "ok").value
        @@ [extracted_metadata |-> meta]

\* The descriptor lists the model call is started with.
DispatchDetails ==
    {<<>>,
     <<StoredFile([filename |-> "notes.txt", mimetype |-> "text/plain"], 0,
                  [info |-> <<"Metadata extraction not supported for content type: ",
                              "text/plain">>])>>,
     <<StoredFile([filename |-> "crash scene.jpg", mimetype |-> "image/jpeg"], 0,
                  [type |-> "image", details |-> "exif"]),
       StoredFile([filename |-> "../invoice.pdf", mimetype |-> "application/pdf"], 1,
                  [type |-> "pdf", details |-> "pages"])>>}

\* The handler's locals when it reaches the model call.
AtModelCall(config, details) ==
    [NewRequest([prompt |-> PromptAssess, model |-> "gemini-2.5-pro"]) EXCEPT
        !.model_config = config,
        !.uploaded_file_details = details,
        !.final_ai_prompt = ComposePrompt(PromptAssess, details),
        !.pc = "invoke"]

InitDispatch ==
    /\ env = FullEnv
    /\ gcs_utils_loaded = TRUE
    /\ download_client \in BOOLEAN
    /\ clock = 2
    /\ bucket = <<>>
    /\ rq \in [{1} -> {AtModelCall(c, d) : c \in DispatchConfigs, d \in DispatchDetails}]

NextDispatch ==
    \E r \in DOMAIN rq : CallModel(r)

SpecDispatch ==
    InitDispatch /\ [][NextDispatch]_vars

(***************************************************************************)
(* A request that passes validation.  The deployment is the default one    *)
(* and the request has a usable prompt and the key of a Gemini or of an    *)
(* endpoint backend; the handler runs from its entry.  The file loop does  *)
(* not read the backend configuration, so what is claimed about the steps  *)
(* of one request is checked on these requests.                            *)
(***************************************************************************)
InitAccepted ==
    /\ env = FullEnv
    /\ gcs_utils_loaded = FALSE
    /\ download_client = FALSE
    /\ clock = 0
    /\ bucket = <<>>
    /\ rq \in [{1} -> {NewRequest([prompt |-> PromptAssess, model |-> m]) :
                          m \in {"gemini-2.5-pro", "llama-3.3"}}]

SpecAccepted ==
    InitAccepted /\ [][Next]_vars

(***************************************************************************)
(* Two requests in flight.  The Flask application serves requests in       *)
(* threads of one process: each has its own handler locals, and they       *)
(* share the loaded modules, the download client, the wall clock and the   *)
(* bucket.  Both requests have passed validation; their steps interleave.  *)
(***************************************************************************)
\* The file parts the two requests carry: two different names that
\* secure_filename maps to the same name.
PairUploads ==
    {<<[filename |-> "crash scene.jpg", mimetype |-> "image/jpeg"]>>,
     <<[filename |-> "crash_scene.jpg", mimetype |-> "image/jpeg"]>>}

\* The handler's locals after validation of a request with file parts fs.
PairRequest(fs) ==
    Validated(NewRequest([prompt |-> PromptAssess, model |-> "gemini-2.5-pro"]),
              FullEnv, fs)

InitPair ==
    /\ env = FullEnv
    /\ gcs_utils_loaded = FALSE
    /\ download_client = FALSE
    /\ clock = 0
    /\ bucket = <<>>
    /\ rq \in [{1, 2} -> {PairRequest(fs) : fs \in PairUploads}]

NextPair ==
    \/ \E r \in DOMAIN rq : ImportUtils(r)
    \/ \E r \in DOMAIN rq : Upload(r)
    \/ \E r \in DOMAIN rq : Fetch(r)
    \/ \E r \in DOMAIN rq : Extract(r)
    \/ \E r \in DOMAIN rq : Compose(r)
    \/ \E r \in DOMAIN rq : CallModel(r)

SpecPair ==
    InitPair /\ [][NextPair]_vars

(***************************************************************************)
(* Vocabulary of the properties: what a request's history says about the   *)
(* file parts and the model call.                                          *)
(***************************************************************************)
\* The handler has returned a response.
Answered(q) ==
    q.pc = "done"

\* The events of q's history with operation op for file part i.
EventsFor(q, op, i) ==
    {k \in 1..Len(q.log) : q.log[k].op = op /\ q.log[k].file = i}

\* The events of q's history with operation op.
EventsOf(q, op) ==
    {k \in 1..Len(q.log) : q.log[k].op = op}

\* The call op for file part i is in q's history with one of the outcomes.
Ended(q, op, i, outcomes) ==
    \E k \in 1..Len(q.log) :
        /\ q.log[k].op = op
        /\ q.log[k].file = i
        /\ q.log[k].outcome \in outcomes

\* The file parts of q with a filename.
Named(q) ==
    {i \in 1..Len(q.files) : q.files[i].filename # ""}

\* The handler is past file part i.
Past(q, i) ==
    q.pc \in {"invoke", "done"} \/ (q.pc = "files" /\ q.i > i)

\* The storage upload of file part i failed.
UploadFailedFor(q, i) ==
    Ended(q, "upload", i, {"error"})

\* The fetch of the stored bytes of file part i, or the extraction of
\* metadata from them, failed.
MetadataFailedFor(q, i) ==
    \/ Ended(q, "fetch", i, {"client_error", "error", "missing", "empty"})
    \/ Ended(q, "extract", i, {"error"})

\* The call recorded in event, made for a file part of q, ended with an
\* exception.
EndedRaising(q, event) ==
    CASE event.op = "upload" -> event.outcome = "error"
      [] event.op = "fetch" -> event.outcome \in {"client_error", "error"}
      [] event.op = "extract" ->
             extract_metadata_from_file_bytes(q.files[event.file].mimetype,
                                              event.outcome).raised
      [] OTHER -> FALSE

\* The file parts of q for which a call ended with an exception.
ExceptionFiles(q) ==
    {q.log[k].file : k \in {j \in 1..Len(q.log) : EndedRaising(q, q.log[j])}}

\* A call made for file part i ended with an exception.
ExceptionFor(q, i) ==
    i \in ExceptionFiles(q)

\* A backend invoker was called and returned an error message.
DispatcherError(q) ==
    /\ Truthy(q.ai_error_message)
    /\ \E k \in 1..Len(q.log) : q.log[k].op = "invoke" /\ ~q.log[k].raised

(***************************************************************************)
(* C1.  The end-to-end scenario: prompt "Assess this claim", model key     *)
(* "gemini-2.5-pro", no files, and the model replying with the three lines *)
(* "**Fraud Confidence Score:** Low", "**Rationale for Score:**",          *)
(* "* No anomalies found." is answered with status 200, score "Low" and    *)
(* rationale ["No anomalies found."].                                      *)
(***************************************************************************)
C1_EndToEndBoldReply ==
    \A r \in DOMAIN rq :
        LET q == rq[r]
        IN  (/\ Answered(q)
             /\ q.form = [prompt |-> PromptAssess, model |-> "gemini-2.5-pro"]
             /\ q.files = <<>>
             /\ q.ai_response_text = ReplyBold
             /\ q.ai_error_message = None)
            => /\ q.response.status = 200
               /\ q.response.body.fraudConfidenceScore = TxtLow
               /\ q.response.body.rationale = <<TxtNoAnomalies>>

(***************************************************************************)
(* C2.  Whatever the collaborators do, no exception propagates out of      *)
(* analyze_claim, and the response it returns has a status among 200, 400, *)
(* 500, 501 and 502.                                                       *)
(***************************************************************************)
C2_AlwaysJsonResponse ==
    \A r \in DOMAIN rq :
        /\ rq[r].pc # "raised"
        /\ Answered(rq[r]) => rq[r].response.status \in {200, 400, 500, 501, 502}

(***************************************************************************)
(* C3.  Neither invoke_gemini_model nor invoke_vertex_endpoint_model ever  *)
(* raises: a failure of any step of the invocation is returned as          *)
(* (None, non-empty error message).                                        *)
(***************************************************************************)
C3_InvokersNeverRaise ==
    \A r \in DOMAIN rq :
        \A k \in EventsOf(rq[r], "invoke") : ~rq[r].log[k].raised

(***************************************************************************)
(* C4.  A model reply without non-empty text is never a success: the       *)
(* dispatcher returns an error message and no text, so a request whose     *)
(* backend replied with empty text is never answered with status 200.      *)
(***************************************************************************)
C4_EmptyReplyIsAnError ==
    \A r \in DOMAIN rq :
        LET q == rq[r]
        IN  (Answered(q) /\ EventsOf(q, "invoke") # {})
            => /\ q.ai_response_text = <<>> => Truthy(q.ai_error_message)
               /\ q.response.status = 200 => Truthy(q.ai_response_text)

(***************************************************************************)
(* C5.  When the model invocation ends with an error message from the      *)
(* dispatcher, the response has status 502 and its payload carries the     *)
(* file errors and file descriptors gathered before the call: every file   *)
(* part that was described or that failed is in it.                        *)
(***************************************************************************)
C5_DispatcherErrorGives502WithFiles ==
    \A r \in DOMAIN rq :
        LET q == rq[r]
            body == q.response.body
        IN  (Answered(q) /\ DispatcherError(q))
            => /\ q.response.status = 502
               /\ \A k \in EventsOf(q, "described") :
                     /\ ~body.processed_files_summary.is_null
                     /\ q.log[k].position <= Len(body.processed_files_summary.value)
                     /\ body.processed_files_summary.value[q.log[k].position].original_filename
                            = secure_filename(q.files[q.log[k].file].filename)
               /\ \A k \in EventsOf(q, "file_error") :
                     /\ ~body.file_processing_errors.is_null
                     /\ q.log[k].position <= Len(body.file_processing_errors.value)
                     /\ body.file_processing_errors.value[q.log[k].position].filename
                            = secure_filename(q.files[q.log[k].file].filename)

\* A dispatcher error after one file part was described and another failed.
C5_Witness ==
    \E r \in DOMAIN rq :
        /\ Answered(rq[r])
        /\ DispatcherError(rq[r])
        /\ EventsOf(rq[r], "described") # {}
        /\ EventsOf(rq[r], "file_error") # {}

(***************************************************************************)
(* C6.  For a file part whose upload succeeded, a failure to fetch the     *)
(* stored bytes or to extract metadata from them (a failure raised inside  *)
(* get_gcs_file_bytes or extract_pdf_metadata included) leaves the file in *)
(* processed_files_summary with an error marker as extracted_metadata, out *)
(* of file_processing_errors, and with its block in the composed prompt.   *)
(***************************************************************************)
C6_MetadataFailureKeepsDescriptor ==
    \A r \in DOMAIN rq :
        LET q == rq[r]
        IN  \A i \in 1..Len(q.files) :
                (Answered(q) /\ MetadataFailedFor(q, i))
                => /\ EventsFor(q, "file_error", i) = {}
                   /\ \E k \in EventsFor(q, "described", i) :
                         LET n == q.log[k].position
                         IN  /\ "error" \in DOMAIN
                                    q.uploaded_file_details[n].extracted_metadata
                             /\ \E j \in 1..Len(q.final_ai_prompt) :
                                   /\ q.final_ai_prompt[j].part = "Attached File"
                                   /\ q.final_ai_prompt[j].index = n

(***************************************************************************)
(* C7.  When the storage upload of a file part fails, the part gets        *)
(* exactly one entry in file_processing_errors and none in the descriptors *)
(* passed to the prompt composer and the dispatcher, and no fetch or       *)
(* extraction is attempted for it.                                         *)
(***************************************************************************)
C7_UploadFailureIsOneFileError ==
    \A r \in DOMAIN rq :
        LET q == rq[r]
        IN  \A i \in 1..Len(q.files) :
                (Past(q, i) /\ UploadFailedFor(q, i))
                => /\ Cardinality(EventsFor(q, "file_error", i)) = 1
                   /\ \A k \in EventsFor(q, "file_error", i) :
                         /\ q.log[k].position <= Len(q.file_processing_errors)
                         /\ q.file_processing_errors[q.log[k].position].filename
                                = secure_filename(q.files[i].filename)
                   /\ Len(q.file_processing_errors)
                          = Cardinality(EventsOf(q, "file_error"))
                   /\ Len(q.uploaded_file_details)
                          = Cardinality(EventsOf(q, "described"))
                   /\ \A k \in 1..Len(q.log) :
                         q.log[k].op \in {"described", "fetch", "extract"}
                         => q.log[k].file # i

\* A request answered after the upload of its first file part failed and
\* its second file part was described.
C7_Witness ==
    \E r \in DOMAIN rq :
        /\ Answered(rq[r])
        /\ Len(rq[r].files) = 2
        /\ UploadFailedFor(rq[r], 1)
        /\ EventsFor(rq[r], "described", 2) # {}

(***************************************************************************)
(* C8.  An unexpected exception while one file part is processed becomes   *)
(* one {filename, error} entry and does not end the request: every later   *)
(* named file part is still processed and the model backend is invoked.    *)
(***************************************************************************)
C8_FileExceptionDoesNotAbort ==
    \A r \in DOMAIN rq :
        LET q == rq[r]
            failed == EventsOf(q, "file_error")
            uploaded == {q.log[k].file : k \in EventsOf(q, "upload")}
        IN  \A i \in ExceptionFiles(q) :
                /\ Cardinality({k \in failed : q.log[k].file = i}) = 1
                /\ \A k \in failed :
                      q.log[k].file = i
                      => /\ q.log[k].position <= Len(q.file_processing_errors)
                         /\ DOMAIN q.file_processing_errors[q.log[k].position]
                                = {"filename", "error"}
                         /\ q.file_processing_errors[q.log[k].position].filename
                                = secure_filename(q.files[i].filename)
                /\ q.pc # "raised"
                /\ Answered(q)
                   => /\ Cardinality(EventsOf(q, "invoke")) = 1
                      /\ \A j \in (i + 1)..Len(q.files) :
                            q.files[j].filename # "" => j \in uploaded

\* A request answered after an exception in its first file part, with a
\* second file part that was described.
C8_Witness ==
    \E r \in DOMAIN rq :
        /\ Answered(rq[r])
        /\ Len(rq[r].files) = 2
        /\ ExceptionFor(rq[r], 1)
        /\ EventsFor(rq[r], "fetch", 1) # {}
        /\ EventsFor(rq[r], "described", 2) # {}
        /\ EventsOf(rq[r], "invoke") # {}
        /\ rq[r].response.status = 200

(***************************************************************************)
(* C9.  A request whose model key is not a configured backend key is       *)
(* answered with status 400, and no upload, no metadata fetch and no       *)
(* dispatcher invocation takes place for it.                               *)
(***************************************************************************)
UnknownModelKey(q) ==
    "model" \in DOMAIN q.form /\ q.form.model \notin DOMAIN MODEL_CONFIGS(env)

C9_UnknownKeyIs400WithoutCalls ==
    \A r \in DOMAIN rq :
        UnknownModelKey(rq[r])
        => /\ rq[r].log = <<>>
           /\ rq[r].pc \in {"start", "done"}
           /\ Answered(rq[r]) => rq[r].response.status = 400

\* A request with a usable prompt and an unknown model key was answered.
C9_Witness ==
    \E r \in DOMAIN rq :
        /\ UnknownModelKey(rq[r])
        /\ "prompt" \in DOMAIN rq[r].form
        /\ rq[r].form.prompt = PromptAssess
        /\ Answered(rq[r])
        /\ rq[r].response.body.error = <<"Invalid model key: ", "gpt-4">>

(***************************************************************************)
(* C10.  A request whose prompt is missing, empty or only whitespace is    *)
(* answered with status 400 and an error about the prompt, whatever its    *)
(* other fields are, and no file processing and no model invocation takes  *)
(* place for it.                                                           *)
(***************************************************************************)
BlankPrompts ==
    {p \in Prompts : strip(p) = <<>>}

BlankPrompt(q) ==
    "prompt" \notin DOMAIN q.form \/ q.form.prompt \in BlankPrompts

C10_BlankPromptIs400WithoutCalls ==
    \A r \in DOMAIN rq :
        BlankPrompt(rq[r])
        => /\ rq[r].log = <<>>
           /\ rq[r].files = <<>>
           /\ rq[r].pc \in {"start", "done"}
           /\ Answered(rq[r])
              => /\ rq[r].response.status = 400
                 /\ rq[r].response.body = [error |-> <<"Prompt is missing or empty">>]

\* A request with a whitespace prompt and a configured model key was
\* answered.
C10_Witness ==
    \E r \in DOMAIN rq :
        /\ "prompt" \in DOMAIN rq[r].form
        /\ rq[r].form.prompt = <<" ", "\t">>
        /\ "model" \in DOMAIN rq[r].form
        /\ rq[r].form.model = "gemini-2.5-pro"
        /\ env = FullEnv
        /\ Answered(rq[r])

(***************************************************************************)
(* C11.  For a request with a usable prompt that selects a backend whose   *)
(* configuration lacks the identifier its kind requires (the model name of *)
(* a Gemini backend, the endpoint resource name of an endpoint backend),   *)
(* the handler answers with status 500 before any upload and before the    *)
(* dispatcher is invoked.                                                  *)
(***************************************************************************)
MissingIdentifier(q) ==
    /\ "model" \in DOMAIN q.form
    /\ q.form.model \in DOMAIN MODEL_CONFIGS(env)
    /\ LET config == MODEL_CONFIGS(env)[q.form.model]
       IN  \/ config.type = "gemini" /\ ~Truthy(config.model_name)
           \/ config.type = "endpoint" /\ ~Truthy(config.endpoint_id)

C11_MissingIdentifierIs500 ==
    \A r \in DOMAIN rq :
        ("prompt" \in DOMAIN rq[r].form /\ rq[r].form.prompt = PromptAssess
            /\ MissingIdentifier(rq[r]))
        => /\ rq[r].log = <<>>
           /\ rq[r].pc \in {"start", "done"}
           /\ Answered(rq[r]) => rq[r].response.status = 500

(***************************************************************************)
(* C12.  When the selected backend configuration has a kind other than     *)
(* "gemini" and "endpoint", neither invoker is called and the handler      *)
(* answers with status 501, not with the 502 of a model-side error.        *)
(***************************************************************************)
UnknownKind(q) ==
    q.model_config # NoDict /\ q.model_config.type \notin {"gemini", "endpoint"}

C12_UnknownKindIs501 ==
    \A r \in DOMAIN rq :
        (Answered(rq[r]) /\ UnknownKind(rq[r]))
        => /\ rq[r].log = <<>>
           /\ rq[r].response.status = 501
           /\ rq[r].response.body.details
                  = <<"Unknown model type configured: ", rq[r].model_config.type>>

\* A request with a backend of another kind was answered, and so was one
\* whose invoker returned an error.
C12_Witness ==
    \E r \in DOMAIN rq :
        /\ Answered(rq[r])
        /\ UnknownKind(rq[r])
        /\ rq[r].uploaded_file_details # <<>>
        /\ rq[r].response.status # 502

(***************************************************************************)
(* C13.  When the endpoint resource name is not of the form                *)
(* projects/{project}/locations/{region}/endpoints/{id},                   *)
(* invoke_vertex_endpoint_model returns an error message and makes no SDK  *)
(* initialisation, no endpoint client and no prediction call.              *)
(***************************************************************************)
\* The segments of a name of that form.
ResourceNameShape(id) ==
    /\ Len(id) >= 6
    /\ <<id[1], id[3], id[5]>> = <<"projects", "locations", "endpoints">>
    /\ "" \notin {id[2], id[4], id[6]}

\* The endpoint invoker was called for q with a name not of that form.
InvokedWithMalformedName(q) ==
    /\ \E k \in EventsOf(q, "invoke") : q.log[k].kind = "endpoint"
    /\ ~ResourceNameShape(q.model_config.endpoint_id)

GeminiReplied(q, text) ==
    /\ Answered(q)
    /\ \E k \in EventsOf(q, "invoke") : q.log[k].kind = "gemini" /\ ~q.log[k].raised
    /\ q.ai_error_message = None
    /\ q.ai_response_text = text

C14_PlainReplyIsParsed ==
    \A r \in DOMAIN rq :
        GeminiReplied(rq[r], ReplyPlain)
        => /\ rq[r].response.status = 200
           /\ rq[r].response.body.fraudConfidenceScore = TxtHigh
           /\ rq[r].response.body.rationale = <<<<"a">>, <<"b">>>>

\* The plain reply was given to a request with a stored file.
C14_Witness ==
    \E r \in DOMAIN rq :
        /\ GeminiReplied(rq[r], ReplyPlain)
        /\ rq[r].form.prompt = PromptAssess
        /\ rq[r].form.model = "gemini-2.5-pro"
        /\ rq[r].uploaded_file_details # <<>>

(***************************************************************************)
(* C15.  For a non-empty response text in which no line contains "fraud    *)
(* confidence score:" (in any letter case), the parsed score is the        *)
(* sentinel "Score not found in AI response", whatever rationale marker or *)
(* rationale lines the text has, and is none of Low, Medium, High and      *)
(* Very High.                                                              *)
(***************************************************************************)
\* The non-empty replies without a score line.
RepliesWithoutScoreLine ==
    {t \in Replies : t # <<>> /\ ~Contains(str_lower(t), ScoreMarker)}

C15_NoScoreLineGivesSentinel ==
    \A r \in DOMAIN rq :
        LET q == rq[r]
        IN  (/\ Answered(q)
             /\ ~Truthy(q.ai_error_message)
             /\ EventsOf(q, "invoke") # {}
             /\ q.ai_response_text \in RepliesWithoutScoreLine)
            => /\ q.response.body.fraudConfidenceScore = ScoreNotFound
               /\ str_lower(q.response.body.fraudConfidenceScore) \notin valid_scores

\* A reply with a rationale section and no score line was parsed.
C15_Witness ==
    \E r \in DOMAIN rq :
        /\ Answered(rq[r])
        /\ ~Truthy(rq[r].ai_error_message)
        /\ rq[r].ai_response_text = ReplyNoScore
        /\ rq[r].response.status = 200
        /\ rq[r].response.body.rationale = <<ScoreLineNotFound>>

(***************************************************************************)
(* C16.  For every response text the parser completes, and the rationale   *)
(* it returns is a non-empty list without blank entries: when the scan     *)
(* yields no usable rationale line, the list is one fallback notice.       *)
(***************************************************************************)
\* The fallback notices of the parser.
FallbackNotices ==
    {ErrParsingRationale, RationaleNotFound, ScoreLineNotFound, AIDidNotReturn}

C16_RationaleIsNeverEmpty ==
    \A r \in DOMAIN rq :
        LET q == rq[r]
        IN  (Answered(q) /\ EventsOf(q, "invoke") # {} /\ ~Truthy(q.ai_error_message))
            => LET rationale == q.response.body.rationale
               IN  /\ rationale # <<>>
                   /\ \A k \in 1..Len(rationale) : rationale[k] # <<>>
                   /\ (\E k \in 1..Len(rationale) : rationale[k] \in FallbackNotices)
                          => Len(rationale) = 1

(***************************************************************************)
(* C17.  When the handler inspects the result of the model invocation,     *)
(* exactly one of ai_response_text and ai_error_message is present (is not *)
(* None; an empty text is a text), whether an invoker returned, the        *)
(* backend kind was unknown, or an exception was caught around the call.   *)
(***************************************************************************)
\* The handler of q went through the model call.
PastModelCall(q) ==
    Answered(q) /\ q.final_ai_prompt # <<>>

C17_ExactlyOneOfTextAndError ==
    \A r \in DOMAIN rq :
        PastModelCall(rq[r])
        => (rq[r].ai_response_text = None) # (rq[r].ai_error_message = None)

\* An exception raised by an invoker was caught around the call.
C17_Witness ==
    \E r \in DOMAIN rq :
        /\ PastModelCall(rq[r])
        /\ \E k \in EventsOf(rq[r], "invoke") : rq[r].log[k].raised
        /\ rq[r].ai_response_text = None
        /\ rq[r].ai_error_message # None
        /\ rq[r].response.status = 500

(***************************************************************************)
(* C18.  The contents invoke_gemini_model sends to the model are the       *)
(* composed prompt as the single first text part, followed by exactly one  *)
(* file-reference part for every descriptor passed in, in the descriptors' *)
(* order.                                                                  *)
(***************************************************************************)
C18_OneFilePartPerDescriptor ==
    \A r \in DOMAIN rq :
        LET q == rq[r]
            details == q.uploaded_file_details
        IN  \A e \in EventsOf(q, "generate_content") :
                LET contents == q.log[e].contents
                IN  /\ contents[1] = [text |-> q.final_ai_prompt]
                    /\ Len(contents) = 1 + Len(details)
                    /\ \A k \in 1..Len(details) :
                          contents[k + 1] = [file_data |-> details[k].gcs_uri,
                                             mime_type |-> details[k].content_type]

(***************************************************************************)
(* C19.  When the descriptors passed to invoke_vertex_endpoint_model       *)
(* contain a PDF, the prompt text sent to the endpoint is the composed     *)
(* prompt extended with the PDF's extracted text or with a placeholder for *)
(* it, and no file reference is sent.                                      *)
(***************************************************************************)
\* A descriptor of q is a PDF.
HasPdf(q) ==
    \E k \in 1..Len(q.uploaded_file_details) :
        q.uploaded_file_details[k].content_type = "application/pdf"

C19_PdfTextIsAppended ==
    \A r \in DOMAIN rq :
        LET q == rq[r]
        IN  \A e \in EventsOf(q, "predict") :
                HasPdf(q)
                => LET instance == q.log[e].instances[1]
                   IN  /\ Len(q.log[e].instances) = 1
                       /\ DOMAIN instance = {"key", "text", "max_tokens"}
                       /\ Len(instance.text) > Len(q.final_ai_prompt)
                       /\ SubSeq(instance.text, 1, Len(q.final_ai_prompt))
                              = q.final_ai_prompt

(***************************************************************************)
(* C20.  The composed prompt has exactly one attached-file block per       *)
(* descriptor, in the descriptors' order and numbered 1..n, and each block *)
(* has exactly one of a metadata line, a metadata-extraction-error line    *)
(* and a metadata-info line; without descriptors it has no file block.     *)
(***************************************************************************)
\* The kinds of line that report a file's metadata.
MetadataLines ==
    {"Metadata", "Metadata Extraction Error", "Metadata Info"}

\* The parts of prompt from position j on are the block numbered k of the
\* descriptor file_detail, with one metadata line.
IsBlockAt(prompt, j, k, file_detail) ==
    /\ prompt[j] = [part |-> "Attached File", index |-> k,
                    name |-> file_detail.original_filename]
    /\ prompt[j + 1] = [part |-> "GCS URI", uri |-> file_detail.gcs_uri]
    /\ prompt[j + 2] = [part |-> "Content Type",
                        content_type |-> file_detail.content_type]
    /\ prompt[j + 3].part \in MetadataLines
    /\ prompt[j + 4] = [part |-> "End Attached File"]

C20_OneBlockPerDescriptor ==
    \A r \in DOMAIN rq :
        LET q == rq[r]
            prompt == q.final_ai_prompt
            details == q.uploaded_file_details
        IN  prompt # <<>>
            => /\ prompt[1] = [part |-> "SYSTEM_PROMPT"]
               /\ prompt[2] = [part |-> "User Query", text |-> q.form.prompt]
               /\ Len(prompt) = 2 + 5 * Len(details)
               /\ \A k \in 1..Len(details) :
                     IsBlockAt(prompt, 5 * k - 2, k, details[k])

\* A prompt composed for two descriptors, the first with an error marker and
\* the second with an info mapping.
C20_Witness ==
    \E r \in DOMAIN rq :
        LET details == rq[r].uploaded_file_details
        IN  /\ rq[r].final_ai_prompt # <<>>
            /\ Len(details) = 2
            /\ "error" \in DOMAIN details[1].extracted_metadata
            /\ "info" \in DOMAIN details[2].extracted_metadata
            /\ rq[r].final_ai_prompt[6].part = "Metadata Extraction Error"
            /\ rq[r].final_ai_prompt[11].part = "Metadata Info"

(***************************************************************************)
(* C21.  Within one request nothing is retried: the upload, the fetch of   *)
(* the stored bytes and the metadata extraction are attempted at most once *)
(* per file part, and a model backend is invoked at most once, also after  *)
(* one of them failed.                                                     *)
(***************************************************************************)
\* What an event of q's history attempts: a call for a file part, or a
\* call of the model.
Attempt(event) ==
    IF event.op \in {"upload", "fetch", "extract"}
    THEN <<event.op, event.file>>
    ELSE <<event.op, 0>>

C21_NothingIsRetried ==
    \A r \in DOMAIN rq :
        LET q == rq[r]
            calls == {k \in 1..Len(q.log) :
                        q.log[k].op \in {"upload", "fetch", "extract", "invoke",
                                         "generate_content", "predict"}}
        IN  Cardinality({Attempt(q.log[k]) : k \in calls}) = Cardinality(calls)

\* A request was answered after the upload of its first file part failed,
\* the extraction for its second failed and the model call failed.
C21_Witness ==
    \E r \in DOMAIN rq :
        /\ Answered(rq[r])
        /\ Len(rq[r].files) = 2
        /\ UploadFailedFor(rq[r], 1)
        /\ \E k \in EventsFor(rq[r], "extract", 2) : rq[r].log[k].outcome = "error"
        /\ EventsOf(rq[r], "invoke") # {}
        /\ Truthy(rq[r].ai_error_message)

(***************************************************************************)
(* C22.  Within one request the steps are strictly ordered: for each file  *)
(* part the upload precedes the fetch, which precedes the extraction,      *)
(* which is over before the upload of the next file part starts; and the   *)
(* model invocation starts only after every named file part has been       *)
(* described or recorded as failed.                                        *)
(***************************************************************************)
\* The place of a file event among the steps for one file part.
Step ==
    [upload |-> 1, fetch |-> 2, extract |-> 3, described |-> 4, file_error |-> 4]

\* In a sequential run the event next may directly follow the event prev:
\* a file event follows only a file event, of an earlier file part or of
\* an earlier step for the same file part; an event of the model call
\* follows anything.
MayFollow(prev, next) ==
    next.op \in DOMAIN Step
    => /\ prev.op \in DOMAIN Step
       /\ \/ prev.file < next.file
          \/ prev.file = next.file /\ Step[prev.op] < Step[next.op]

C22_StepsAreSequential ==
    \A r \in DOMAIN rq :
        LET q == rq[r]
            n == Len(q.files)
        IN  /\ \A k \in 1..(Len(q.log) - 1) : MayFollow(q.log[k], q.log[k + 1])
            /\ (q.pc \in {"invoke", "done"} /\ q.final_ai_prompt # <<>>)
                  => LET named == Named(q)
                     IN  /\ named \subseteq
                               {q.log[k].file : k \in EventsOf(q, "upload")}
                         /\ named \subseteq
                               {q.log[k].file :
                                   k \in {j \in 1..Len(q.log) :
                                             q.log[j].op \in {"described",
                                                              "file_error"}}}

\* A request with two stored and described file parts whose model was
\* invoked.
C22_Witness ==
    \E r \in DOMAIN rq :
        /\ Answered(rq[r])
        /\ Len(rq[r].files) = 2
        /\ \A i \in 1..2 : /\ EventsFor(rq[r], "extract", i) # {}
                           /\ EventsFor(rq[r], "described", i) # {}
        /\ EventsOf(rq[r], "invoke") # {}

\* The downloads of q's history that yielded bytes.
Downloads(q) ==
    {k \in 1..Len(q.log) : q.log[k].op = "fetch" /\ q.log[k].outcome = "bytes"}

\* C23. Two requests handled concurrently do not interact: under any
\* interleaving of their steps each request's file descriptors, file errors,
\* prompt and response are those it has when it runs alone, and the
\* configuration table is never modified.  A request that runs alone
\* extracts the metadata of a descriptor from the bytes of the file part it
\* uploaded for that descriptor; so must a request that runs next to another.
C23_RequestsDoNotInteract ==
    /\ MODEL_CONFIGS(env) = MODEL_CONFIGS(FullEnv)
    /\ \A r \in DOMAIN rq :
          \A k \in Downloads(rq[r]) :
              rq[r].log[k].content = [request |-> r, part |-> rq[r].log[k].file]

\* The successful uploads in the histories of the requests in flight, each
\* as the pair of its request and its position in that request's history.
StoredUploads ==
    UNION {{<<r, k>> : k \in {j \in 1..Len(rq[r].log) :
                                  /\ rq[r].log[j].op = "upload"
                                  /\ rq[r].log[j].outcome = "ok"}} :
           r \in DOMAIN rq}

\* The object key upload_to_gcs generated in the upload u.
KeyOf(u) ==
    LET q == rq[u[1]]
        event == q.log[u[2]]
    IN  upload_to_gcs(q.files[event.file], GCS_BUCKET_NAME(env), "fnol_uploads",
                      event.ts, "ok").value.blob_name

\* C30. No two successful uploads are stored under the same object key,
\* whether they belong to one request or to two requests in flight, and
\* whether or not their sanitized filenames are the same.
C30_ObjectKeysAreDistinct ==
    \A u, v \in StoredUploads : u # v => KeyOf(u) # KeyOf(v)

\* The position of the first line of lines that contains marker, in any
\* letter case; 0 when there is none.
FirstLineWith(lines, marker) ==
    LET hits == {k \in 1..Len(lines) : Contains(str_lower(lines[k]), marker)}
    IN  IF hits = {} THEN 0 ELSE CHOOSE k \in hits : \A j \in hits : k <= j

\* The rationale point a line gives: the line without surrounding
\* whitespace and leading bullet markers.
PointOf(line) ==
    strip(lstrip(strip(line), {"*", " "}))

\* The positions in lines that come after the first score marker line and
\* after the first rationale marker line, when both are there.
AfterBothMarkers(lines) ==
    LET s == FirstLineWith(lines, ScoreMarker)
        m == FirstLineWith(lines, RationaleMarker)
    IN  IF s = 0 \/ m = 0
        THEN {}
        ELSE {k \in 1..Len(lines) : k > s /\ k > m}

\* The request was answered from the text of a model reply.
ParsedReply(q) ==
    /\ Answered(q)
    /\ EventsOf(q, "invoke") # {}
    /\ ~Truthy(q.ai_error_message)
    /\ Truthy(q.ai_response_text)

\* For each reply, the points of the lines after both markers.
PointsAfterBothMarkers ==
    [t \in Replies |->
        LET lines == split(t, "\n")
        IN  {PointOf(lines[k]) : k \in AfterBothMarkers(lines)}]

\* C24. Rationale points are taken only from lines that come strictly after
\* both the score marker line and the rationale marker line, in whichever
\* order the two occur; the marker lines themselves are never rationale
\* points.  So every rationale point of a response, other than a fallback
\* notice, is the point of a line after both markers.
C24_PointsComeAfterBothMarkers ==
    \A r \in DOMAIN rq :
        LET q == rq[r]
        IN  ParsedReply(q)
            => \/ q.response.body.rationale \in {<<n>> : n \in FallbackNotices}
               \/ \A j \in 1..Len(q.response.body.rationale) :
                      q.response.body.rationale[j]
                          \in PointsAfterBothMarkers[q.ai_response_text]

\* For each reply with a score marker, the text after the first colon of
\* the first line with the marker, trimmed.
ScoreOfFirstMarkerLine ==
    [t \in {u \in Replies : Contains(str_lower(u), ScoreMarker)} |->
        LET lines == split(t, "\n")
            line == lines[FirstLineWith(lines, ScoreMarker)]
        IN  strip(SubSeq(line, FirstIndex(line, ":") + 1, Len(line)))]

\* C25. The parsed score is determined by the first line that contains
\* "fraud confidence score:" in any letter case: it is the text after the
\* first colon of that line, trimmed, kept verbatim also when it is none of
\* Low, Medium, High and Very High; later lines with the marker do not
\* change it.
C25_FirstScoreLineDecides ==
    \A r \in DOMAIN rq :
        LET q == rq[r]
        IN  (ParsedReply(q) /\ q.ai_response_text \in DOMAIN ScoreOfFirstMarkerLine)
            => q.response.body.fraudConfidenceScore
                   = ScoreOfFirstMarkerLine[q.ai_response_text]

\* A reply with two score lines, the first with a score outside the four
\* levels, was answered with the first score.
C25_Witness ==
    \E r \in DOMAIN rq :
        /\ ParsedReply(rq[r])
        /\ rq[r].ai_response_text = ReplyMixed
        /\ rq[r].response.status = 200
        /\ rq[r].response.body.fraudConfidenceScore = <<"O", "d", "d">>
        /\ str_lower(rq[r].response.body.fraudConfidenceScore) \notin valid_scores

\* For each reply, the points of the bold heading lines after both markers.
BoldHeadingPoints ==
    [t \in Replies |->
        LET lines == split(t, "\n")
        IN  {PointOf(lines[k]) :
                k \in {j \in AfterBothMarkers(lines) :
                          startswith(strip(lines[j]), <<"*", "*">>)}}]

\* C26. After both markers have been found, a line whose trimmed text
\* begins with "**" is not added to the rationale points.
C26_BoldHeadingsAreSkipped ==
    \A r \in DOMAIN rq :
        LET q == rq[r]
        IN  ParsedReply(q)
            => \A j \in 1..Len(q.response.body.rationale) :
                   q.response.body.rationale[j]
                       \notin BoldHeadingPoints[q.ai_response_text]

\* The handler has left the loop over the file parts.
FilesProcessed(q) ==
    q.pc \in {"invoke", "done"} /\ q.final_ai_prompt # <<>>

\* C27. In every request that reaches file processing, each file part with
\* a filename ends in exactly one of the descriptor list and the error
\* list, so that the two lists together have as many entries as there are
\* named file parts; a file part without a filename is in neither list, and
\* the descriptors are in the order of the file parts.
C27_EachFileInOneList ==
    \A r \in DOMAIN rq :
        LET q == rq[r]
            details == q.uploaded_file_details
            errors == q.file_processing_errors
            ended == {k \in 1..Len(q.log) :
                        q.log[k].op \in {"described", "file_error"}}
            described == {k \in ended : q.log[k].op = "described"}
            failed == ended \ described
            named == Named(q)
        IN  FilesProcessed(q)
            => /\ Len(details) + Len(errors) = Cardinality(named)
               /\ Cardinality(ended) = Cardinality(named)
               /\ {q.log[k].file : k \in ended} = named
               /\ {q.log[k].position : k \in described} = 1..Len(details)
               /\ {q.log[k].position : k \in failed} = 1..Len(errors)
               /\ \A k \in described :
                     LET file == q.files[q.log[k].file]
                         d == details[q.log[k].position]
                     IN  /\ d.original_filename = secure_filename(file.filename)
                         /\ d.content_type = file.mimetype
               /\ \A k \in failed :
                     errors[q.log[k].position].filename
                         = secure_filename(q.files[q.log[k].file].filename)
               /\ \A k, l \in described :
                     q.log[k].file < q.log[l].file
                     => q.log[k].position < q.log[l].position

\* A request with two named file parts, one described and one failed, has
\* left the loop.
C27_Witness ==
    \E r \in DOMAIN rq :
        LET q == rq[r]
        IN  /\ FilesProcessed(q)
            /\ Len(q.files) = 2
            /\ Cardinality(Named(q)) = 2
            /\ Len(q.uploaded_file_details) = 1
            /\ Len(q.file_processing_errors) = 1

\* A model backend was invoked for q and returned a text and no error
\* message.  A text of length zero is a text.
BackendReturnedText(q) ==
    /\ \E k \in EventsOf(q, "invoke") : ~q.log[k].raised
    /\ q.ai_error_message = None
    /\ q.ai_response_text # None

\* C28. A response has status 200 if and only if a model backend was
\* invoked for the request and returned text without an error message.  A
\* text without the score or rationale marker still gives status 200, with
\* the parser's notices in place of score and rationale; no response of a
\* request that was refused before the model call or whose model call
\* failed has status 200.
C28_Status200IffBackendReturnedText ==
    \A r \in DOMAIN rq :
        LET q == rq[r]
        IN  Answered(q)
            => /\ q.response.status = 200 <=> BackendReturnedText(q)
               /\ (BackendReturnedText(q) /\ q.ai_response_text = ReplyProse)
                     => /\ q.response.body.fraudConfidenceScore = ScoreNotFound
                        /\ q.response.body.rationale = <<RationaleNotFound>>
               /\ EventsOf(q, "invoke") = {} => q.response.status # 200
               /\ Truthy(q.ai_error_message) => q.response.status # 200

\* A reply without either marker was answered with status 200 and the
\* parser's notices.
C28_Witness ==
    \E r \in DOMAIN rq :
        LET q == rq[r]
        IN  /\ Answered(q)
            /\ BackendReturnedText(q)
            /\ q.ai_response_text = ReplyProse
            /\ q.response.status = 200
            /\ q.response.body.fraudConfidenceScore = ScoreNotFound

\* What upload_to_gcs did in the upload at position k of q's history.
UploadResult(q, k) ==
    upload_to_gcs(q.files[q.log[k].file], GCS_BUCKET_NAME(env), "fnol_uploads",
                  q.log[k].ts, q.log[k].outcome)

\* C29. upload_to_gcs never raises: when the storage operation fails with
\* an exception it returns None, and otherwise it returns a descriptor with
\* gcs_uri, original_filename, content_type, blob_name and bucket_name.
C29_UploadNeverRaises ==
    \A r \in DOMAIN rq :
        \A k \in EventsOf(rq[r], "upload") :
            LET res == UploadResult(rq[r], k)
            IN  /\ ~res.raised
                /\ IF rq[r].log[k].outcome = "error"
                   THEN res.value = NoDict
                   ELSE DOMAIN res.value = {"gcs_uri", "original_filename",
                                            "content_type", "blob_name",
                                            "bucket_name"}

=============================================================================
